---------------------------- MODULE Spec2Model ----------------------------
(* State-machine model of the real-time simulation core of the game:       *)
(* the session state and game loop (narrative/StoryManager.js, which holds  *)
(* the main program), the level builders (world/*.js), the zone-trigger     *)
(* system (horror/HorrorEvents.js) and the entity controller                *)
(* (horror/Entity.js).                                                      *)
(*                                                                          *)
(* Units.  Lengths are centimetres, timer time is deciseconds (100 ms),     *)
(* a frame delta is milliseconds, the battery is hundredths of a percent.   *)
(*                                                                          *)
(* Abstractions.  A raycast is an input: the object the nearest hit         *)
(* resolves to (or "none").  The camera yaw is an input of a frame, one of  *)
(* the four axis directions.  Audio cues, hints and the prompt are recorded *)
(* in cue / hint / prompt; lights, materials and mesh positions are not     *)
(* modelled.  The note viewer's text is the list of characters written so  *)
(* far, a character being a note's name and a position in its content.      *)
(* wallBoxes holds, per level builder, the colliders the state machines     *)
(* refer to and a few walls, in the builders' order, with the builders'     *)
(* own index arithmetic.                                                    *)
EXTENDS Integers, Sequences, FiniteSets, TLC

VARIABLES
    playing, paused, noteOpen,       \* state.playing / paused / noteOpen
    flashlightOn, battery,           \* state.flashlightOn / battery
    hasKeycard, hasKeycard10,        \* state.hasKeycard / hasKeycard10
    valvesTurned,                    \* state.valvesTurned
    finalTerminalRead,               \* state.finalTerminalRead
    pendingCinematic,                \* state.pendingCinematic
    collectiblesFound,               \* state.collectiblesFound
    chapter,                         \* state.chapter
    keys,                            \* state.moveForward .. state.sprinting
    camera,                          \* camera.position
    bobTime,                         \* bobTime (head-bob phase)
    ud,                              \* userData of every interactable
    roofTriggered,                   \* rooftopData.triggerZone.userData.triggered
    wallBoxes,                       \* wallBoxes
    timers,                          \* pending setTimeout callbacks, by due time
    anim,                            \* running requestAnimationFrame slides
    pointerLocked, lockReq,          \* pointer lock and a pending lock()/unlock()
    interactFrame,                   \* _interactFrame % 3
    prompt, cue, hint,               \* what the last handler showed / played
    cinRuns, cinLog,                 \* cinematic runs started, steps fired
    horror,                          \* HorrorEvents: triggered set and counters
    entityState,                     \* Entity.js entityState
    noteText,                        \* dom.noteContent.textContent
    typers                           \* openNote's pending typewriter callbacks

sessionVars == <<playing, paused, noteOpen, pointerLocked, lockReq>>
playerVars  == <<flashlightOn, battery, keys, camera, bobTime>>
flagVars    == <<hasKeycard, hasKeycard10, valvesTurned, finalTerminalRead,
                 pendingCinematic, collectiblesFound, chapter, ud, roofTriggered>>
worldVars   == <<wallBoxes, timers, anim>>
uiVars      == <<interactFrame, prompt, cue, hint>>
cinVars     == <<cinRuns, cinLog>>
npcVars     == <<horror, entityState>>
noteVars    == <<noteText, typers>>

vars == <<sessionVars, playerVars, flagVars, worldVars, uiVars, cinVars, npcVars,
          noteVars>>

--------------------------------------------------------------------------
(* Small helpers *)

Min(a, b) == IF a < b THEN a ELSE b
Max(a, b) == IF a > b THEN a ELSE b

--------------------------------------------------------------------------
(* Boxes: THREE.Box3 as [min, max] of <<x, y, z>> *)

Inf == 100000000

Vec(x, y, z) == <<x, y, z>>

\* box.setFromCenterAndSize(center, size): halfSize = size / 2
BoxCS(c, s) ==
    [min |-> <<c[1] - s[1] \div 2, c[2] - s[2] \div 2, c[3] - s[3] \div 2>>,
     max |-> <<c[1] + s[1] \div 2, c[2] + s[2] \div 2, c[3] + s[3] \div 2>>]

\* Box3.makeEmpty(): min = +Infinity, max = -Infinity
EmptyBox == [min |-> <<Inf, Inf, Inf>>, max |-> <<-Inf, -Inf, -Inf>>]

\* Box3.isEmpty()
IsEmpty(b) == \E i \in 1..3 : b.max[i] < b.min[i]

\* Box3.intersectsBox(box): closed intervals, touching boxes intersect
IntersectsBox(a, b) ==
    ~(\E i \in 1..3 : b.max[i] < a.min[i] \/ b.min[i] > a.max[i])

\* Box3.containsPoint(p)
ContainsPoint(b, p) ==
    ~(\E i \in 1..3 : p[i] < b.min[i] \/ p[i] > b.max[i])


--------------------------------------------------------------------------
(* Level builders: the colliders and interactables they hand to init().   *)
(* Every builder keeps its own colliders array and takes the indices it   *)
(* stores from that array's length.                                       *)

\* addBox(w, h, d, mat, x, y, z, true): the collider pushed
AddBox(w, h, d, x, y, z) == BoxCS(<<x, y, z>>, <<w, h, d>>)

\* buildLegacyHQ: W = 0.4, H = 4
HQ_W == 40
HQ_H == 400
\* wallX(x1, x2, z): full-height wall along X
HQWallX(x1, x2, z) ==
    AddBox(Max(x2 - x1, x1 - x2), HQ_H, HQ_W, (x1 + x2) \div 2, HQ_H \div 2, z)
\* wallXPartial(x1, x2, z, yBot, yTop)
HQWallXPartial(x1, x2, z, yBot, yTop) ==
    AddBox(Max(x2 - x1, x1 - x2), yTop - yBot, HQ_W,
           (x1 + x2) \div 2, yBot + (yTop - yBot) \div 2, z)

\* wallZ(z1, z2, x): full-height wall along Z
HQWallZ(z1, z2, x) ==
    AddBox(HQ_W, HQ_H, Max(z2 - z1, z1 - z2), x, HQ_H \div 2, (z1 + z2) \div 2)

\* colliders of buildLegacyHQ up to and including the inner door leaves
HQUpToDoor ==
    << AddBox(450, 100, 130, 0, 50, 900),          \* reception desk
       HQWallX(-1800, -220, 400),                  \* lobby wall, left of the door
       HQWallX(220, 1800, 400),                    \* lobby wall, right of the door
       HQWallXPartial(-220, 220, 400, 320, HQ_H),  \* above the door
       AddBox(220, 320, HQ_W, -110, 160, 400),     \* doorLeft
       AddBox(220, 320, HQ_W, 110, 160, 400) >>    \* doorRight
doorColliderLeft  == Len(HQUpToDoor) - 2
doorColliderRight == Len(HQUpToDoor) - 1

\* ... up to and including the security door leaves
HQUpToSecDoor ==
    HQUpToDoor \o
    << AddBox(15, 320, HQ_W + 10, -220, 160, 400), \* door frame, left post
       AddBox(15, 320, HQ_W + 10, 220, 160, 400),  \* door frame, right post
       HQWallZ(400, 100, -300),                    \* hallway, left wall
       HQWallZ(400, 100, 300),                     \* hallway, right wall
       HQWallXPartial(-220, 220, -1700, 320, HQ_H),
       AddBox(220, 320, HQ_W, -110, 160, -1700),   \* secDoorLeft
       AddBox(220, 320, HQ_W, 110, 160, -1700) >>  \* secDoorRight
secDoorColliderL == Len(HQUpToSecDoor) - 2
secDoorColliderR == Len(HQUpToSecDoor) - 1

\* ... up to and including the hatch panel
HQUpToHatch ==
    HQUpToSecDoor \o << AddBox(150, 8, 150, -1300, 6, -2600) >>
hatchColliderIdx == Len(HQUpToHatch) - 1

HQColliders ==
    HQUpToHatch \o << HQWallX(-800, -300, -1100), HQWallX(300, 800, -1100) >>

\* buildCoolingTunnels: Y = -4, H = 3.2, HH = Y + H / 2, W = 0.5
TunnelUpToExitDoor ==
    << AddBox(3000, 320, 50, 300, -240, -2775),    \* main tunnel, north wall
       AddBox(1100, 320, 50, -950, -240, -3225),   \* main tunnel, south wall
       AddBox(40, 300, 350, 1980, -240, -3600) >>  \* exitDoor
exitDoorColliderIdx == Len(TunnelUpToExitDoor) - 1
TunnelColliders == TunnelUpToExitDoor

\* buildSecretLab: Y = -4, H = 3.8, HH = Y + H / 2, W = 0.4
LabUpToEscDoor ==
    << AddBox(300, 20, 300, 3100, -390, -3500),    \* podBase
       AddBox(350, 320, 40, 3700, -210, -2430) >>  \* escDoor
escDoorColliderIdx == Len(LabUpToEscDoor) - 1
LabColliders == LabUpToEscDoor

\* buildRooftop: Y = 4
RoofColliders ==
    << AddBox(450, 250, 40, 3700, 525, -2400),     \* stairwell exit, back wall
       AddBox(3000, 120, 50, 3500, 460, 0),        \* parapet, north edge
       AddBox(3000, 120, 50, 3500, 460, -2000) >>  \* parapet, south edge

\* rooftop triggerZone: BoxGeometry(20, 3, 3) at (35, Y + 1.5, -2)
RoofTriggerBox == BoxCS(<<3500, 550, -200>>, <<2000, 300, 300>>)

\* The interactables of the four builders (one note and one terminal stand
\* for the many that differ only in their text)
Objects ==
    {"note", "terminal", "door", "locked_door", "keycard", "final_terminal",
     "hatch", "valve0", "valve1", "valve2", "lab_final_terminal",
     "keycard_10", "escape_door"}

Valves == {"valve0", "valve1", "valve2"}

\* userData.type
TypeOf(o) ==
    CASE o \in Valves -> "valve"
      [] o = "lab_final_terminal" -> "final_terminal"
      [] OTHER -> o

\* userData as built: everything interactable but the hatch, nothing opened
\* or turned, every mesh visible; doorInScene: the mesh userData.door
\* refers to (the escape door's panel) has not been removed from the scene
InitUserData ==
    [o \in Objects |->
        [interactable |-> (o # "hatch"), opened |-> FALSE,
         turned |-> FALSE, visible |-> TRUE, doorInScene |-> TRUE]]

\* init(): wallBoxes is the four builders' arrays pushed one after another
InitWallBoxes == HQColliders \o TunnelColliders \o LabColliders \o RoofColliders

\* wallBoxes[i] of the code (0-based)
WB(boxes, i) == boxes[i + 1]

\* wallBoxes[i].makeEmpty()
MakeEmpty(boxes, i) == [boxes EXCEPT ![i + 1] = EmptyBox]


--------------------------------------------------------------------------
(* Timers.  timers is the list of pending setTimeout callbacks ordered by *)
(* due time (callbacks due at the same time keep their registration       *)
(* order), each with the time left; anim maps a requestAnimationFrame     *)
(* slide to the time left of its duration, or -1 when it is not running.  *)

\* (variant of the next definition: the newest callback runs first)
InsertTimer_Front(q, t) == <<t>> \o q

\* setTimeout(cb, ms): the callback joins the list behind everything due
\* no later than it
RECURSIVE InsertTimer(_, _)
InsertTimer(q, t) ==
    IF q = <<>> THEN <<t>>
    ELSE IF Head(q).rem <= t.rem THEN <<Head(q)>> \o InsertTimer(Tail(q), t)
    ELSE <<t>> \o q

SetTimeout(q, id, ds) == InsertTimer(q, [id |-> id, rem |-> ds])

\* the callback the event loop runs next, if it is due
HeadDue(id) == timers # <<>> /\ Head(timers).id = id /\ Head(timers).rem = 0

AnyTimerDue == timers # <<>> /\ Head(timers).rem = 0

Anims == {"door", "sec", "exit"}
NoAnim == [a \in Anims |-> -1]
AnyAnimDue == \E a \in Anims : anim[a] = 0

\* delays and durations of the code, in deciseconds
DoorDuration     == 20      \* openDoor: duration = 2000
SecDoorDelay     == 15      \* openSecurityDoor: setTimeout(..., 1500)
SecDoorDuration  == 30      \* openSecurityDoor: duration = 3000
ValveExitDelay   == 15      \* valve branch: setTimeout(..., 1500)
ExitDoorDuration == 20      \* animExit: dur = 2000
EscDoorDelay     == 10      \* escape_door branch: setTimeout(..., 1000)
EscTeleportDelay == 5       \* escape_door branch: setTimeout(..., 500)
CinStep2 == 20
CinStep3 == 45
CinStep4 == 55
CinStep5 == 75
CinStep6 == 120
CinStep7 == 140

\* state.playerHeight, in cm
playerHeight == 170

--------------------------------------------------------------------------
(* Bounds of the model *)

MaxFound   == 4      \* interactions that hit something, per run
MaxCinRuns == 2      \* cinematic runs started, per run
MaxWalkDrain == 180  \* battery drained while a walk is followed, hundredths of a percent
ArenaReach == 200    \* how far from the spawn point a walk is followed, cm
MaxEntityMs == 20000 \* how long past its activation the entity is followed, ms
MaxCycleMs == 60000  \* likewise, where its visibility cycle is followed, ms
NoteLen == 3         \* characters of a note's content

--------------------------------------------------------------------------
(* Initial state: the module-level state object, init() and the builders *)

InitHorror == [triggered |-> {}, fired |-> <<>>]

\* entityState as createEntity builds it, but for its three random draws
InitEntity ==
    [active |-> FALSE, activateTime |-> 0, position |-> <<900, 0, -2000>>,
     currentTarget |-> 0, chasing |-> FALSE, visibleTimer |-> 0,
     appearsFor |-> 0, hideFor |-> 0, isShowing |-> FALSE,
     whispers |-> 0, scares |-> 0]

\* state.battery as built: 100 percent
FullBattery == 10000

\* the spawn point: camera.position.set(0, state.playerHeight, 5.5)
Spawn == <<0, playerHeight, 550>>

\* everything but the camera position and the entity
InitWorld ==
    /\ playing = FALSE /\ paused = FALSE /\ noteOpen = FALSE
    /\ pointerLocked = FALSE /\ lockReq = "none"
    /\ flashlightOn = TRUE /\ battery = FullBattery
    /\ keys = [moveForward |-> FALSE, moveBackward |-> FALSE,
               moveLeft |-> FALSE, moveRight |-> FALSE, sprinting |-> FALSE]
    /\ bobTime = 0
    /\ hasKeycard = FALSE /\ hasKeycard10 = FALSE
    /\ valvesTurned = 0
    /\ finalTerminalRead = FALSE /\ pendingCinematic = FALSE
    /\ collectiblesFound = 0
    /\ chapter = 1
    /\ ud = InitUserData
    /\ roofTriggered = FALSE
    /\ wallBoxes = InitWallBoxes
    /\ timers = <<>>
    /\ anim = NoAnim
    /\ interactFrame = 0
    /\ prompt = "none" /\ cue = "none" /\ hint = "none"
    /\ cinRuns = 0 /\ cinLog = <<>>
    /\ horror = InitHorror
    /\ noteText = <<>> /\ typers = <<>>

InitSession == InitWorld /\ camera = Spawn

Init == InitSession /\ entityState = InitEntity


--------------------------------------------------------------------------
(* Pointer lock (PointerLockControls) and the session buttons *)

\* controls.lock(): the browser grants the lock later, with a 'lock' event
ControlsLock(req, locked) == IF locked /\ req = "none" THEN "none" ELSE "lock"
\* controls.unlock(): the 'unlock' event follows later
ControlsUnlock(req, locked) == IF ~locked /\ req = "none" THEN "none" ELSE "unlock"

\* startGame()
StartGame ==
    /\ ~playing
    /\ playing' = TRUE
    /\ paused' = FALSE
    /\ lockReq' = ControlsLock(lockReq, pointerLocked)
    /\ cue' = "ambience" /\ hint' = "title"
    /\ UNCHANGED <<noteOpen, pointerLocked, playerVars, flagVars, worldVars,
                   interactFrame, prompt, cinVars, npcVars,
                   noteVars>>

\* resumeGame(): the pause menu's resume button
ResumeGame ==
    /\ playing /\ paused
    /\ paused' = FALSE
    /\ lockReq' = ControlsLock(lockReq, pointerLocked)
    /\ cue' = "none" /\ hint' = "none"
    /\ UNCHANGED <<playing, noteOpen, pointerLocked, playerVars, flagVars,
                   worldVars, interactFrame, prompt, cinVars, npcVars,
                   noteVars>>

\* quitToMenu(): the pause menu's quit button
QuitToMenu ==
    /\ playing /\ paused
    /\ playing' = FALSE
    /\ paused' = FALSE
    /\ lockReq' = ControlsUnlock(lockReq, pointerLocked)
    /\ cue' = "stopAll" /\ hint' = "none"
    /\ UNCHANGED <<noteOpen, pointerLocked, playerVars, flagVars, worldVars,
                   interactFrame, prompt, cinVars, npcVars,
                   noteVars>>

\* controls 'lock' event handler
OnLock ==
    /\ lockReq = "lock"
    /\ pointerLocked' = TRUE
    /\ lockReq' = "none"
    /\ paused' = IF playing /\ ~noteOpen THEN FALSE ELSE paused
    /\ cue' = "none" /\ hint' = "none"
    /\ UNCHANGED <<playing, noteOpen, playerVars, flagVars, worldVars,
                   interactFrame, prompt, cinVars, npcVars,
                   noteVars>>

\* controls 'unlock' event handler: after controls.unlock(), or when the
\* player leaves the pointer lock (Esc)
OnUnlock ==
    /\ lockReq = "unlock" \/ pointerLocked
    /\ pointerLocked' = FALSE
    /\ lockReq' = IF lockReq = "unlock" THEN "none" ELSE lockReq
    /\ paused' = IF playing /\ ~noteOpen THEN TRUE ELSE paused
    /\ cue' = "none" /\ hint' = "none"
    /\ UNCHANGED <<playing, noteOpen, playerVars, flagVars, worldVars,
                   interactFrame, prompt, cinVars, npcVars,
                   noteVars>>

\* toggleFlashlight(), from onKeyDown 'KeyF'
ToggleFlashlight ==
    /\ playing
    /\ IF battery <= 0
       THEN flashlightOn' = flashlightOn /\ cue' = "none"
       ELSE flashlightOn' = ~flashlightOn /\ cue' = "click"
    /\ hint' = "none"
    /\ UNCHANGED <<sessionVars, battery, keys, camera, bobTime,
                   flagVars, worldVars, interactFrame, prompt, cinVars, npcVars,
                   noteVars>>

\* onKeyDown / onKeyUp of a movement key or ShiftLeft
KeyNames == {"moveForward", "moveBackward", "moveLeft", "moveRight", "sprinting"}

KeyDown(k) ==
    /\ playing
    /\ ~keys[k]
    /\ keys' = [keys EXCEPT ![k] = TRUE]
    /\ cue' = "none" /\ hint' = "none"
    /\ UNCHANGED <<sessionVars, flashlightOn, battery, camera, bobTime,
                   flagVars, worldVars, interactFrame, prompt, cinVars, npcVars,
                   noteVars>>

KeyUp(k) ==
    /\ keys[k]
    /\ keys' = [keys EXCEPT ![k] = FALSE]
    /\ cue' = "none" /\ hint' = "none"
    /\ UNCHANGED <<sessionVars, flashlightOn, battery, camera, bobTime,
                   flagVars, worldVars, interactFrame, prompt, cinVars, npcVars,
                   noteVars>>

--------------------------------------------------------------------------
(* The chapter-ending cinematic *)

\* triggerChapter2Cinematic(): step 1 runs at once, steps 2..7 are six
\* setTimeout callbacks registered in this order
CinematicTimers(q) ==
    SetTimeout(SetTimeout(SetTimeout(SetTimeout(SetTimeout(SetTimeout(q,
        "cin2", CinStep2), "cin3", CinStep3), "cin4", CinStep4),
        "cin5", CinStep5), "cin6", CinStep6), "cin7", CinStep7)

\* (variant of the next definition: the last step unlocks the hatch)
CinStep_HatchAtEnd(id, n, c, h) ==
    /\ HeadDue(id)
    /\ timers' = Tail(timers)
    /\ cinLog' = Append(cinLog, n)
    /\ cue' = c /\ hint' = h
    /\ ud' = IF n = 7 THEN [ud EXCEPT !["hatch"].interactable = TRUE] ELSE ud
    /\ paused' = IF n = 7 THEN FALSE ELSE paused
    /\ UNCHANGED <<playing, noteOpen, pointerLocked, lockReq, playerVars,
                   hasKeycard, hasKeycard10, valvesTurned, finalTerminalRead,
                   pendingCinematic, collectiblesFound, chapter, roofTriggered,
                   wallBoxes, anim, interactFrame, prompt, cinRuns, npcVars,
                   noteVars>>

\* a cinematic step's callback: what it changes besides lights and overlay
CinStep(id, n, c, h) ==
    /\ HeadDue(id)
    /\ timers' = Tail(timers)
    /\ cinLog' = Append(cinLog, n)
    /\ cue' = c /\ hint' = h
    /\ ud' = IF n = 6 THEN [ud EXCEPT !["hatch"].interactable = TRUE] ELSE ud
    /\ paused' = IF n = 7 THEN FALSE ELSE paused
    /\ UNCHANGED <<playing, noteOpen, pointerLocked, lockReq, playerVars,
                   hasKeycard, hasKeycard10, valvesTurned, finalTerminalRead,
                   pendingCinematic, collectiblesFound, chapter, roofTriggered,
                   wallBoxes, anim, interactFrame, prompt, cinRuns, npcVars,
                   noteVars>>

Cin2 == CinStep("cin2", 2, "alarm", "warning")
Cin3 == CinStep("cin3", 3, "bassBoom", "none")
Cin4 == CinStep("cin4", 4, "scare", "lockdown")
Cin5 == CinStep("cin5", 5, "heartbeat", "none")
Cin6 == CinStep("cin6", 6, "click", "hatchUnlocked")
Cin7 == CinStep("cin7", 7, "none", "findWayOut")


--------------------------------------------------------------------------
(* tryInteract(): KeyE.  hit is the raycast's first hit ("none": no hit) *)

NoteTypes == {"note", "terminal", "vhs", "final_terminal"}

\* (variant of the next definition: the interactable flag not consulted)
Dispatches_AnyFlag(hit) ==
    /\ ~(paused \/ noteOpen)
    /\ hit # "none"

\* line 370 and line 376: the interact reaches the dispatch on the type
Dispatches(hit) ==
    /\ ~(paused \/ noteOpen)
    /\ hit # "none"
    /\ ud[hit].interactable

\* the hatch branch's own test
HatchSealed(hit) == ~finalTerminalRead \/ ~ud[hit].interactable

\* (variant of the next definition: the door opens without the card)
LockedDoorGrants_NoCard == TRUE
\* the locked_door branch: the card opens the door
LockedDoorGrants == hasKeycard

\* (variant of the next definition: the door opens without the card)
EscapeDoorGrants_NoCard == TRUE
\* the escape_door branch: the level 10 card opens the door
EscapeDoorGrants == hasKeycard10

\* (variant of the next definition: the inner door is not counted either)
ReturnsEarly_Door(hit) ==
    \/ TypeOf(hit) = "hatch" /\ HatchSealed(hit)
    \/ TypeOf(hit) \in {"escape_door", "locked_door"} /\ ud[hit].opened
    \/ TypeOf(hit) = "door"

\* the branches that return before state.collectiblesFound++
ReturnsEarly(hit) ==
    \/ TypeOf(hit) = "hatch" /\ HatchSealed(hit)
    \/ TypeOf(hit) \in {"escape_door", "locked_door"} /\ ud[hit].opened

\* (variant of the next definition: the increment forgotten)
TurnValve_Forgets(n) == n
\* the valve branch: state.valvesTurned++
TurnValve(n) == n + 1

\* the keycard branches: the pickup's userData afterwards
PickUp(d) == [d EXCEPT !.visible = FALSE, !.interactable = FALSE]

\* (variant of the next definition: the hatch leaves the player upstairs)
TunnelEntry_Surface == <<-1300, playerHeight, -2600>>
\* the hatch branch: camera.position.set(-13, -4 + state.playerHeight, -26)
TunnelEntry == <<-1300, -400 + playerHeight, -2600>>
RooftopEntry == <<3700, 400 + playerHeight, -2200>>

InteractCue(hit) ==
    LET t == TypeOf(hit) IN
    CASE t \in {"terminal", "final_terminal"} -> "terminal"
      [] t = "door" -> IF ud[hit].opened THEN "none" ELSE "doorSlam"
      [] t \in {"keycard", "keycard_10"} -> "click"
      [] t = "valve" -> IF ud[hit].turned THEN "none" ELSE "valveTone"
      [] t = "hatch" -> IF HatchSealed(hit) THEN "none" ELSE "doorSlam"
      [] t = "escape_door" -> IF ud[hit].opened THEN "none"
                              ELSE IF EscapeDoorGrants THEN "terminal" ELSE "denied"
      [] t = "locked_door" -> IF ud[hit].opened THEN "none"
                              ELSE IF LockedDoorGrants THEN "terminal" ELSE "denied"
      [] OTHER -> "none"

InteractHint(hit) ==
    LET t == TypeOf(hit) IN
    CASE t = "keycard" -> "card5"
      [] t = "keycard_10" -> "card10"
      [] t = "valve" -> IF ud[hit].turned THEN "none" ELSE "valveActivated"
      [] t = "hatch" -> IF HatchSealed(hit) THEN "sealed" ELSE "descend"
      [] t = "escape_door" -> IF ud[hit].opened THEN "none"
                              ELSE IF EscapeDoorGrants THEN "granted10" ELSE "locked10"
      [] t = "locked_door" -> IF ud[hit].opened THEN "none"
                              ELSE IF LockedDoorGrants THEN "granted" ELSE "locked5"
      [] OTHER -> "none"

\* (variant of the next definition: the door branch flips opened)
InteractUserData_Flip(hit) ==
    LET t == TypeOf(hit) IN
    CASE t = "door" -> [ud EXCEPT ![hit].opened = ~@]
      [] t \in {"keycard", "keycard_10"} ->
            [ud EXCEPT ![hit] = [@ EXCEPT !.visible = FALSE, !.interactable = FALSE]]
      [] t = "valve" -> [ud EXCEPT ![hit].turned = TRUE]
      [] t \in {"escape_door", "locked_door"} -> [ud EXCEPT ![hit].opened = TRUE]
      [] OTHER -> ud

\* the hit object's userData after the branch
InteractUserData(hit) ==
    LET t == TypeOf(hit) IN
    CASE t = "door" -> [ud EXCEPT ![hit].opened = TRUE]
      [] t \in {"keycard", "keycard_10"} -> [ud EXCEPT ![hit] = PickUp(@)]
      [] t = "valve" -> [ud EXCEPT ![hit].turned = TRUE]
      [] t = "escape_door" ->
            IF ~ud[hit].opened /\ EscapeDoorGrants
            THEN [ud EXCEPT ![hit].opened = TRUE] ELSE ud
      [] t = "locked_door" ->
            IF ~ud[hit].opened /\ LockedDoorGrants
            THEN [ud EXCEPT ![hit].opened = TRUE] ELSE ud
      [] OTHER -> ud

\* (variant of the next definition: the first valve already opens the exit)
InteractTimers_Early(hit) ==
    LET t == TypeOf(hit) IN
    CASE t = "valve" /\ ~ud[hit].turned /\ TurnValve(valvesTurned) >= 1 ->
            SetTimeout(timers, "valveExit", ValveExitDelay)
      [] t = "escape_door" /\ ~ud[hit].opened /\ EscapeDoorGrants ->
            SetTimeout(timers, "escOpen", EscDoorDelay)
      [] t = "locked_door" /\ ~ud[hit].opened /\ LockedDoorGrants ->
            SetTimeout(timers, "secOpen", SecDoorDelay)
      [] OTHER -> timers

\* the setTimeout the branch registers, if any
InteractTimers(hit) ==
    LET t == TypeOf(hit) IN
    CASE t = "valve" /\ ~ud[hit].turned /\ TurnValve(valvesTurned) >= 3 ->
            SetTimeout(timers, "valveExit", ValveExitDelay)
      [] t = "escape_door" /\ ~ud[hit].opened /\ EscapeDoorGrants ->
            SetTimeout(timers, "escOpen", EscDoorDelay)
      [] t = "locked_door" /\ ~ud[hit].opened /\ LockedDoorGrants ->
            SetTimeout(timers, "secOpen", SecDoorDelay)
      [] OTHER -> timers

\* userData.content, character by character; the kth character of o's text
\* is written <<o, k>>
Content(o) == [k \in 1..NoteLen |-> <<o, k>>]

\* openNote(content): the text is cleared and type() runs once, which
\* writes the first character and registers itself with setTimeout(type, 25)
OpenNoteText(o) == IF Len(Content(o)) > 0 THEN <<Content(o)[1]>> ELSE <<>>
OpenNoteTypers(q, o) ==
    IF Len(Content(o)) > 0 THEN Append(q, [note |-> o, i |-> 1]) ELSE q

\* type(), run by its timer: the callbacks all wait 25 ms, so they run in
\* the order they were registered
TypeStep ==
    /\ typers # <<>>
    /\ LET h == Head(typers) IN
       IF h.i < Len(Content(h.note))
       THEN /\ noteText' = Append(noteText, Content(h.note)[h.i + 1])
            /\ typers' = Append(Tail(typers), [h EXCEPT !.i = @ + 1])
       ELSE /\ noteText' = noteText
            /\ typers' = Tail(typers)
    /\ UNCHANGED <<sessionVars, playerVars, flagVars, worldVars, uiVars, cinVars,
                   npcVars>>

TryInteract(hit) ==
    /\ playing
    /\ IF Dispatches(hit)
       THEN LET t == TypeOf(hit) IN
            /\ ~ReturnsEarly(hit) => collectiblesFound < MaxFound
            /\ noteOpen' = (t \in NoteTypes)
            /\ noteText' = IF t \in NoteTypes THEN OpenNoteText(hit) ELSE noteText
            /\ typers' = IF t \in NoteTypes THEN OpenNoteTypers(typers, hit)
                         ELSE typers
            /\ lockReq' = IF t \in NoteTypes
                          THEN ControlsUnlock(lockReq, pointerLocked) ELSE lockReq
            /\ finalTerminalRead' = (finalTerminalRead \/ t = "final_terminal")
            /\ pendingCinematic' = (pendingCinematic \/ t = "final_terminal")
            /\ hasKeycard' = (hasKeycard \/ t = "keycard")
            /\ hasKeycard10' = (hasKeycard10 \/ t = "keycard_10")
            /\ ud' = InteractUserData(hit)
            /\ valvesTurned' = IF t = "valve" /\ ~ud[hit].turned
                               THEN TurnValve(valvesTurned) ELSE valvesTurned
            /\ timers' = InteractTimers(hit)
            /\ anim' = IF t = "door" /\ ~ud[hit].opened
                       THEN [anim EXCEPT !["door"] = DoorDuration] ELSE anim
            /\ camera' = IF t = "hatch" /\ ~HatchSealed(hit)
                         THEN TunnelEntry ELSE camera
            /\ collectiblesFound' = IF ReturnsEarly(hit) THEN collectiblesFound
                                    ELSE collectiblesFound + 1
            /\ cue' = InteractCue(hit)
            /\ hint' = InteractHint(hit)
       ELSE /\ cue' = "none" /\ hint' = "none"
            /\ UNCHANGED <<noteOpen, lockReq, finalTerminalRead, pendingCinematic,
                           hasKeycard, hasKeycard10, ud, valvesTurned, timers,
                           anim, camera, collectiblesFound, noteVars>>
    /\ UNCHANGED <<playing, paused, pointerLocked, flashlightOn, battery, keys,
                   bobTime, chapter, roofTriggered, wallBoxes,
                   interactFrame, prompt, cinVars, npcVars>>

\* closeNote(): the note viewer's close button
CloseNote ==
    /\ noteOpen
    /\ noteOpen' = FALSE
    /\ lockReq' = ControlsLock(lockReq, pointerLocked)
    /\ IF pendingCinematic /\ chapter = 1
       THEN /\ cinRuns < MaxCinRuns
            /\ pendingCinematic' = FALSE
            /\ paused' = TRUE
            /\ timers' = CinematicTimers(timers)
            /\ cinRuns' = cinRuns + 1
            /\ cinLog' = Append(cinLog, 1)
            /\ cue' = "terminal" /\ hint' = "systemBoot"
       ELSE /\ cue' = "none" /\ hint' = "none"
            /\ UNCHANGED <<pendingCinematic, paused, timers, cinVars>>
    /\ UNCHANGED <<playing, pointerLocked, playerVars, hasKeycard, hasKeycard10,
                   valvesTurned, finalTerminalRead, collectiblesFound, chapter,
                   ud, roofTriggered, wallBoxes, anim, interactFrame, prompt,
                   npcVars, noteVars>>


--------------------------------------------------------------------------
(* setTimeout callbacks of the doors, and the slide animations' last frame *)

\* openSecurityDoor's callback: the slam, then animSec starts
SecOpen ==
    /\ HeadDue("secOpen")
    /\ timers' = Tail(timers)
    /\ anim' = [anim EXCEPT !["sec"] = SecDoorDuration]
    /\ cue' = "doorSlam" /\ hint' = "none"
    /\ UNCHANGED <<sessionVars, playerVars, flagVars, wallBoxes, interactFrame,
                   prompt, cinVars, npcVars,
                   noteVars>>

\* the third valve's callback: animExit starts
ValveExit ==
    /\ HeadDue("valveExit")
    /\ timers' = Tail(timers)
    /\ anim' = [anim EXCEPT !["exit"] = ExitDoorDuration]
    /\ cue' = "terminal" /\ hint' = "powerRestored"
    /\ UNCHANGED <<sessionVars, playerVars, flagVars, wallBoxes, interactFrame,
                   prompt, cinVars, npcVars,
                   noteVars>>

\* the escape door's callback: the collider goes, the teleport is scheduled
EscOpen ==
    /\ HeadDue("escOpen")
    /\ wallBoxes' = MakeEmpty(wallBoxes, escDoorColliderIdx)
    /\ ud' = [ud EXCEPT !["escape_door"].doorInScene = FALSE]
    /\ timers' = SetTimeout(Tail(timers), "escTeleport", EscTeleportDelay)
    /\ cue' = "doorSlam" /\ hint' = "none"
    /\ UNCHANGED <<sessionVars, playerVars, hasKeycard, hasKeycard10,
                   valvesTurned, finalTerminalRead, pendingCinematic,
                   collectiblesFound, chapter, roofTriggered, anim,
                   interactFrame, prompt, cinVars, npcVars,
                   noteVars>>

EscTeleport ==
    /\ HeadDue("escTeleport")
    /\ timers' = Tail(timers)
    /\ camera' = RooftopEntry
    /\ cue' = "none" /\ hint' = "rooftop"
    /\ UNCHANGED <<sessionVars, flashlightOn, battery, keys, bobTime,
                   flagVars, wallBoxes, anim, interactFrame, prompt, cinVars,
                   npcVars, noteVars>>

\* (variant of the next definition: a two-leaf door loses its left box only)
Retracts_LeftOnly(a) ==
    CASE a = "door" -> {doorColliderLeft}
      [] a = "sec" -> {secDoorColliderL}
      [] a = "exit" -> {exitDoorColliderIdx}

\* the colliders a slide retracts on its last frame (t = 1)
Retracts(a) ==
    CASE a = "door" -> {doorColliderLeft, doorColliderRight}
      [] a = "sec" -> {secDoorColliderL, secDoorColliderR}
      [] a = "exit" -> {exitDoorColliderIdx}

\* (variant of the next definition: the colliders left in place)
RetractAll_Keeps(boxes, idxs) == boxes

RetractAll(boxes, idxs) ==
    [k \in 1..Len(boxes) |-> IF (k - 1) \in idxs THEN EmptyBox ELSE boxes[k]]

AnimHint(a) ==
    CASE a = "door" -> "hallway"
      [] a = "sec" -> "darkness"
      [] a = "exit" -> "none"

\* animDoor / animSec / animExit at t = 1
AnimDone(a) ==
    /\ anim[a] = 0
    /\ anim' = [anim EXCEPT ![a] = -1]
    /\ wallBoxes' = RetractAll(wallBoxes, Retracts(a))
    /\ cue' = "none" /\ hint' = AnimHint(a)
    /\ UNCHANGED <<sessionVars, playerVars, flagVars, timers, interactFrame,
                   prompt, cinVars, npcVars,
                   noteVars>>

--------------------------------------------------------------------------
(* Time between callbacks *)

Pending == {timers[k].rem : k \in 1..Len(timers)} \cup
           {anim[a] : a \in {b \in Anims : anim[b] >= 0}}

NextEvent ==
    IF Pending = {} THEN 0 ELSE CHOOSE m \in Pending : \A n \in Pending : m <= n

\* q tenths of a second pass; no callback is overdue and none is skipped
Advance(q) ==
    /\ Pending # {}
    /\ q >= 1 /\ q <= NextEvent
    /\ timers' = [k \in 1..Len(timers) |-> [timers[k] EXCEPT !.rem = @ - q]]
    /\ anim' = [a \in Anims |-> IF anim[a] >= 0 THEN anim[a] - q ELSE anim[a]]
    /\ UNCHANGED <<sessionVars, playerVars, flagVars, wallBoxes, uiVars,
                   cinVars, npcVars, noteVars>>

\* q tenths of a second pass while the event loop is busy: callbacks and
\* last frames that fall due in between wait, overdue, in their order
Lag(q) ==
    /\ \E m \in Pending : m > 0
    /\ timers' = [k \in 1..Len(timers) |->
                     [timers[k] EXCEPT !.rem = Max(0, @ - q)]]
    /\ anim' = [a \in Anims |-> IF anim[a] >= 0 THEN Max(0, anim[a] - q)
                                 ELSE anim[a]]
    /\ UNCHANGED <<sessionVars, playerVars, flagVars, wallBoxes, uiVars,
                   cinVars, npcVars, noteVars>>


--------------------------------------------------------------------------
(* The game loop: animate() *)

\* n / d rounded to the nearest integer (positions are whole centimetres)
Round(n, d) ==
    IF n >= 0 THEN (2 * n + d) \div (2 * d) ELSE -((2 * (-n) + d) \div (2 * d))

\* playerSize = (0.5, 1.7, 0.5)
playerSize == <<50, 170, 50>>

\* checkCollision(newPos) against a given wallBoxes
Collides(boxes, pos) ==
    \E k \in 1..Len(boxes) : IntersectsBox(BoxCS(pos, playerSize), boxes[k])

\* the boxes that make checkCollision(pos) report an overlap (0-based)
Blockers(boxes, pos) ==
    {i \in 0..(Len(boxes) - 1) : IntersectsBox(BoxCS(pos, playerSize), WB(boxes, i))}

\* camera.getWorldDirection, flattened and normalised, in thousandths
Yaws == {"N", "E", "S", "W", "NE"}
CamDir(yaw) ==
    CASE yaw = "N" -> <<0, -1000>>
      [] yaw = "E" -> <<1000, 0>>
      [] yaw = "S" -> <<0, 1000>>
      [] yaw = "W" -> <<-1000, 0>>
      [] yaw = "NE" -> <<707, -707>>
\* camRight = camDir x (0, 1, 0)
CamRight(yaw) == <<-CamDir(yaw)[2], CamDir(yaw)[1]>>

Num(b) == IF b THEN 1 ELSE 0

walkSpeed == 180
sprintSpeed == 320

\* state.direction after normalize(), in thousandths: <<x, z>>
Direction(k) ==
    LET dz == Num(k["moveForward"]) - Num(k["moveBackward"])
        dx == Num(k["moveRight"]) - Num(k["moveLeft"])
        n  == IF dx # 0 /\ dz # 0 THEN 707 ELSE 1000
    IN <<dx * n, dz * n>>

\* moveVec for a frame of delta milliseconds: <<x, z>> in centimetres
MoveVec(k, yaw, delta) ==
    LET speed == IF k["sprinting"] THEN sprintSpeed ELSE walkSpeed
        d == Direction(k)
        f == CamDir(yaw)
        r == CamRight(yaw)
        ux == Round(f[1] * d[2] + r[1] * d[1], 1000)
        uz == Round(f[2] * d[2] + r[2] * d[1], 1000)
    IN << Round(ux * speed * delta, 1000000), Round(uz * speed * delta, 1000000) >>

\* (variant of the next definition: a blocked axis cancels the whole move)
Resolve_CancelsAll(boxes, pos, mv) ==
    LET tryX == <<pos[1] + mv[1], pos[2], pos[3]>>
        bx   == Collides(boxes, tryX)
        tryZ == <<tryX[1], tryX[2], tryX[3] + mv[2]>>
        bz   == Collides(boxes, tryZ)
    IN [pos |-> IF bx \/ bz THEN pos ELSE tryZ, blockedX |-> bx, blockedZ |-> bz]

\* (variant of the next definition: a blocked Z step is not reverted)
Resolve_KeepsZ(boxes, pos, mv) ==
    LET tryX == <<pos[1] + mv[1], pos[2], pos[3]>>
        bx   == Collides(boxes, tryX)
        afterX == IF bx THEN pos ELSE tryX
        tryZ == <<afterX[1], afterX[2], afterX[3] + mv[2]>>
        bz   == Collides(boxes, tryZ)
    IN [pos |-> tryZ, blockedX |-> bx, blockedZ |-> bz]

\* lines 797-811: try X, revert if blocked; then try Z, revert if blocked
Resolve(boxes, pos, mv) ==
    LET tryX == <<pos[1] + mv[1], pos[2], pos[3]>>
        bx   == Collides(boxes, tryX)
        afterX == IF bx THEN pos ELSE tryX
        tryZ == <<afterX[1], afterX[2], afterX[3] + mv[2]>>
        bz   == Collides(boxes, tryZ)
        afterZ == IF bz THEN afterX ELSE tryZ
    IN [pos |-> afterZ, blockedX |-> bx, blockedZ |-> bz]

\* floorY from the camera height
FloorOf(y) == IF y > 200 THEN 400 ELSE IF y < 0 THEN -400 ELSE 0

Clamp(v, lo, hi) == Max(lo, Min(hi, v))

\* the level-bounds clamp of x and z
ClampToLevel(floorY, x, z) ==
    CASE floorY = -400 -> <<Clamp(x, -1550, 3950), Clamp(z, -4250, -2350)>>
      [] floorY = 400 -> <<Clamp(x, 2050, 4950), Clamp(z, -2050, -50)>>
      [] OTHER -> <<Clamp(x, -1750, 1750), Clamp(z, -2750, 1350)>>

\* Math.sin of an angle in thousandths of a radian, in thousandths
\* (Bhaskara's rational approximation on each half period)
TwoPi == 6283
HalfSin(x) ==
    LET p == x * (3142 - x)
    IN (16000 * (p \div 100)) \div ((5 * 3142 * 3142 - 4 * p) \div 100)
Sin(t) ==
    LET x == t % TwoPi IN IF x <= 3142 THEN HalfSin(x) ELSE -HalfSin(x - 3142)

IsMoving(k) ==
    k["moveForward"] \/ k["moveBackward"] \/ k["moveLeft"] \/ k["moveRight"]

\* getHeadBob: the new bobTime (thousandths of a radian) and the offset (cm)
BobTimeAfter(bt, delta, k) ==
    IF ~IsMoving(k) THEN 0
    ELSE bt + delta * (IF k["sprinting"] THEN 14 ELSE 10)
GetHeadBob(bt, delta, k) ==
    IF ~IsMoving(k) THEN 0
    ELSE Round(Sin(BobTimeAfter(bt, delta, k)) * (IF k["sprinting"] THEN 6 ELSE 3), 1000)

\* lines 858-866: drain of a frame; the battery is in hundredths of a percent
Drain(delta) == (delta * 12) \div 100
\* (variant of the next definition: no floor at 0)
BatteryAfter_NoFloor(b, on, delta) == IF on /\ b > 0 THEN b - Drain(delta) ELSE b

BatteryAfter(b, on, delta) ==
    IF on /\ b > 0
    THEN (IF b - Drain(delta) <= 0 THEN 0 ELSE b - Drain(delta))
    ELSE b
FlashlightAfter(b, on, delta) ==
    IF on /\ b > 0 /\ b - Drain(delta) <= 0 THEN FALSE ELSE on

\* lines 873-894: the prompt shown for the nearest hit
PromptFor(hit) ==
    IF hit # "none" /\ ud[hit].interactable THEN hit ELSE "none"


\* HorrorEvents.events: id, zone centre, radius
HorrorZones ==
    << [id |-> "lobby_enter",     zone |-> <<0, 170, 800>>,       radius |-> 400],
       [id |-> "hall_midpoint",   zone |-> <<0, 170, -300>>,      radius |-> 300],
       [id |-> "office_enter",    zone |-> <<-600, 170, -300>>,   radius |-> 300],
       [id |-> "server_approach", zone |-> <<500, 170, -500>>,    radius |-> 300],
       [id |-> "server_deep",     zone |-> <<900, 170, -900>>,    radius |-> 300],
       [id |-> "break_room",      zone |-> <<-1200, 170, -1900>>, radius |-> 400],
       [id |-> "basement_enter",  zone |-> <<1200, 170, -1600>>,  radius |-> 300],
       [id |-> "basement_deep",   zone |-> <<1200, 170, -2400>>,  radius |-> 300] >>

\* playerPos.distanceTo(zone) < radius, on squared distances
InZone(pos, e) ==
    LET dx == pos[1] - e.zone[1]
        dy == pos[2] - e.zone[2]
        dz == pos[3] - e.zone[3]
    IN dx * dx + dy * dy + dz * dz < e.radius * e.radius

\* HorrorEvents.update, the zone loop: the events it triggers, in list order
RECURSIVE ZoneLoop(_, _, _)
ZoneLoop(h, pos, k) ==
    IF k > Len(HorrorZones) THEN h
    ELSE LET e == HorrorZones[k] IN
         IF e.id \notin h.triggered /\ InZone(pos, e)
         THEN ZoneLoop([triggered |-> h.triggered \cup {e.id},
                        fired |-> Append(h.fired, e.id)], pos, k + 1)
         ELSE ZoneLoop(h, pos, k + 1)

HorrorUpdate(h, pos) == ZoneLoop(h, pos, 1)

\* line 908: the game loop runs the zone triggers only under this gate
HorrorGate == chapter >= 2

\* (variant of the next definition: an open note does not stop the frame)
TickGate_NoNote == playing /\ ~paused
\* line 776: the frame's body runs only under this gate
TickGate == playing /\ ~paused /\ ~noteOpen

\* one animation frame while the game runs unpaused: raw is the clock's
\* delta in ms, yaw the view direction, hit the prompt raycast's nearest hit
Tick(raw, yaw, hit) ==
    LET delta  == Min(raw, 100)
        moves  == Direction(keys) # <<0, 0>>
        mv     == IF moves THEN MoveVec(keys, yaw, delta) ELSE <<0, 0>>
        res    == IF moves THEN Resolve(wallBoxes, camera, mv)
                  ELSE [pos |-> camera, blockedX |-> FALSE, blockedZ |-> FALSE]
        floorY == FloorOf(res.pos[2])
        y      == floorY + playerHeight + GetHeadBob(bobTime, delta, keys)
        xz     == ClampToLevel(floorY, res.pos[1], res.pos[3])
        final  == <<xz[1], y, xz[2]>>
        ends   == floorY = 400 /\ ~roofTriggered /\ ContainsPoint(RoofTriggerBox, final)
        frame  == (interactFrame + 1) % 3
    IN
    /\ TickGate
    /\ ends => cinRuns < MaxCinRuns
    /\ camera' = final
    /\ bobTime' = BobTimeAfter(bobTime, delta, keys)
    /\ roofTriggered' = (roofTriggered \/ ends)
    /\ paused' = ends
    /\ timers' = IF ends THEN CinematicTimers(timers) ELSE timers
    /\ cinRuns' = IF ends THEN cinRuns + 1 ELSE cinRuns
    /\ cinLog' = IF ends THEN Append(cinLog, 1) ELSE cinLog
    /\ battery' = BatteryAfter(battery, flashlightOn, delta)
    /\ flashlightOn' = FlashlightAfter(battery, flashlightOn, delta)
    /\ interactFrame' = frame
    /\ prompt' = IF frame = 0 THEN PromptFor(hit) ELSE prompt
    /\ horror' = IF HorrorGate THEN HorrorUpdate(horror, final) ELSE horror
    /\ cue' = IF ends THEN "terminal" ELSE "none"
    /\ hint' = IF ends THEN "systemBoot" ELSE "none"
    /\ UNCHANGED <<playing, noteOpen, pointerLocked, lockReq, keys, hasKeycard,
                   hasKeycard10, valvesTurned, finalTerminalRead, pendingCinematic,
                   collectiblesFound, chapter, ud, wallBoxes, anim, entityState,
                   noteVars>>


--------------------------------------------------------------------------
(* Entity.js: createEntity(...).update.  Times are milliseconds, the      *)
(* Math.random() draws are inputs of the step that makes them.            *)

\* floor of the square root
RECURSIVE SqrtFrom(_, _)
SqrtFrom(n, r) == IF r * r <= n THEN r ELSE SqrtFrom(n, (r + n \div r) \div 2)
ISqrt(n) == IF n <= 0 THEN 0 ELSE SqrtFrom(n, Min(n, 46340))

\* a.distanceTo(b), in whole centimetres
DistanceTo(a, b) ==
    ISqrt((a[1] - b[1]) * (a[1] - b[1]) + (a[2] - b[2]) * (a[2] - b[2])
          + (a[3] - b[3]) * (a[3] - b[3]))

\* from + normalize(to - from) * speed * delta
StepToward(from, to, speed, delta) ==
    LET d == Max(DistanceTo(from, to), 1)
    IN [i \in 1..3 |-> from[i] + Round((to[i] - from[i]) * ((speed * delta) \div 100),
                                       d * 10)]

patrolPoints ==
    << <<900, 0, -800>>, <<0, 0, -500>>, <<-900, 0, -500>>,
       <<0, 0, -1200>>, <<1200, 0, -2100>>, <<-1200, 0, -1900>> >>

\* patrolPoints.reduce(...): the first point no other point is nearer than
RECURSIVE ClosestFrom(_, _, _)
ClosestFrom(best, k, playerPos) ==
    IF k > Len(patrolPoints) THEN best
    ELSE ClosestFrom(
            IF DistanceTo(patrolPoints[k], playerPos) < DistanceTo(best, playerPos)
            THEN patrolPoints[k] ELSE best, k + 1, playerPos)
Closest(playerPos) == ClosestFrom(patrolPoints[1], 2, playerPos)

detectionRange == 600
entitySpeed == 250
chaseSpeed == 400

\* (variant of the next definition: a hidden entity shows at the next update)
Shows_AtOnce(e, vt) == ~e.isShowing
\* line 118: the hidden entity's timer has passed hideFor
Shows(e, vt) == ~e.isShowing /\ vt > e.hideFor
\* line 111: the showing entity's timer has passed appearsFor
Hides(e, vt) == e.isShowing /\ vt > e.appearsFor

\* (variant of the next definition: the entity chases from twice as far)
Detects_Far(playerDist) == playerDist < 2 * detectionRange
\* line 146: the player is within the detection radius
Detects(playerDist) == playerDist < detectionRange
\* line 152: the player is within the contact radius
contactRange == 200
Caught(playerDist) == playerDist < contactRange

\* the state past the activation test; e already holds the new activateTime
EntityAwake(e, delta, playerPos, rHide, rAppear, rCaught) ==
    LET vt == e.visibleTimer + delta
        hides == Hides(e, vt)
        shows == Shows(e, vt)
        c == [e EXCEPT !.active = TRUE,
                       !.whispers = IF e.active THEN @ ELSE @ + 1,
                       !.visibleTimer = IF hides \/ shows THEN 0 ELSE vt,
                       !.isShowing = IF hides THEN FALSE ELSE IF shows THEN TRUE ELSE @,
                       !.hideFor = IF hides THEN rHide ELSE @,
                       !.appearsFor = IF shows THEN rAppear ELSE @,
                       !.scares = IF shows THEN @ + 1 ELSE @,
                       !.position = IF shows THEN Closest(playerPos) ELSE @]
        target == patrolPoints[c.currentTarget + 1]
        dist == DistanceTo(c.position, target)
        playerDist == DistanceTo(c.position, playerPos)
        nextTarget == IF dist < 100 THEN (c.currentTarget + 1) % Len(patrolPoints)
                      ELSE c.currentTarget
    IN IF ~c.isShowing THEN c
       ELSE IF Detects(playerDist)
       THEN [c EXCEPT !.currentTarget = nextTarget,
                      !.position = StepToward(c.position, playerPos, chaseSpeed, delta),
                      !.chasing = TRUE,
                      !.isShowing = IF Caught(playerDist) THEN FALSE ELSE @,
                      !.visibleTimer = IF Caught(playerDist) THEN 0 ELSE @,
                      !.hideFor = IF Caught(playerDist) THEN rCaught ELSE @]
       ELSE [c EXCEPT !.currentTarget = nextTarget,
                      !.position = StepToward(c.position, target, entitySpeed, delta),
                      !.chasing = FALSE]

\* (variant of the next definition: the entity activates a second late)
Activates_Late(t) == t <= -1000
\* the activation test: nothing else runs while the countdown is positive
Activates(t) == t <= 0

\* update(delta, elapsed, playerPos)
EntityAfter(e, delta, playerPos, rHide, rAppear, rCaught) ==
    LET d == [e EXCEPT !.activateTime = @ - delta]
    IN IF ~Activates(d.activateTime) THEN d
       ELSE EntityAwake(d, delta, playerPos, rHide, rAppear, rCaught)

--------------------------------------------------------------------------
(* Spec: the doors of the headquarters.  The session handlers, the inner  *)
(* door, the access card and the security door, their callbacks and       *)
(* slides; time jumps from one due callback or last frame to the next.    *)

Hits == Objects \cup {"none"}
DoorHits == {"none", "keycard", "locked_door", "door"}

Interact == \E hit \in DoorHits : TryInteract(hit)
SlideDone == \E a \in Anims : AnimDone(a)
Wait == Advance(NextEvent)

Next ==
    \/ StartGame
    \/ ResumeGame
    \/ QuitToMenu
    \/ OnLock
    \/ OnUnlock
    \/ Interact
    \/ SecOpen
    \/ SlideDone
    \/ Wait

Spec == Init /\ [][Next]_vars

\* the event loop runs every due callback and the clock does not stop
FairSpec ==
    Spec /\ WF_vars(SecOpen) /\ WF_vars(SlideDone) /\ WF_vars(Wait)

--------------------------------------------------------------------------
(* SpecUnder: the interactables of the cooling tunnels and the lab *)

UnderHits == {"none", "valve0", "valve1", "valve2", "keycard_10", "escape_door"}

InteractUnder == \E hit \in UnderHits : TryInteract(hit)

NextUnder ==
    \/ StartGame
    \/ OnLock
    \/ OnUnlock
    \/ InteractUnder
    \/ ValveExit
    \/ EscOpen
    \/ EscTeleport
    \/ SlideDone
    \/ Wait

SpecUnder == Init /\ [][NextUnder]_vars

--------------------------------------------------------------------------
(* SpecFlags: every flagged interactable of the four levels with all the  *)
(* callbacks, and frames whose prompt raycast meets any of them           *)

FlagHits == Objects \ {"note", "terminal", "lab_final_terminal"}
PromptHits == {"none", "hatch", "keycard", "door"}

InteractAny == \E hit \in FlagHits : TryInteract(hit)
Frame == \E hit \in PromptHits : Tick(0, "N", hit)

NextFlags ==
    \/ StartGame
    \/ InteractAny
    \/ CloseNote
    \/ SecOpen
    \/ ValveExit
    \/ EscOpen
    \/ EscTeleport
    \/ Cin2
    \/ Cin3
    \/ Cin4
    \/ Cin5
    \/ Cin6
    \/ Cin7
    \/ SlideDone
    \/ Wait
    \/ Frame

SpecFlags == Init /\ [][NextFlags]_vars

--------------------------------------------------------------------------
(* SpecCin: the cinematic on a clock of tenths of a second *)

CinHits == {"none", "final_terminal", "hatch"}

InteractCin == \E hit \in CinHits : TryInteract(hit)
Tock == Advance(1)

NextCin ==
    \/ StartGame
    \/ InteractCin
    \/ CloseNote
    \/ Cin2
    \/ Cin3
    \/ Cin4
    \/ Cin5
    \/ Cin6
    \/ Cin7
    \/ Tock

SpecCin == Init /\ [][NextCin]_vars

--------------------------------------------------------------------------
(* SpecCoarse: the cinematic under a late event loop.  Time passes in     *)
(* steps that may cross several of the cinematic's offsets at once; the   *)
(* pointer lock granted after closeNote is part of it.                    *)

LagSteps == {70, 150}

LagAny == \E q \in LagSteps : Lag(q)

NextCoarse ==
    \/ StartGame
    \/ OnLock
    \/ InteractCin
    \/ CloseNote
    \/ Cin2
    \/ Cin3
    \/ Cin4
    \/ Cin5
    \/ Cin6
    \/ Cin7
    \/ LagAny

SpecCoarse == Init /\ [][NextCoarse]_vars

--------------------------------------------------------------------------
(* SpecBattery: the flashlight over frames of 50 ms and 100 ms and of a   *)
(* quarter second, which the loop cuts to 100 ms                          *)

Raws == {50, 100, 250}

DrainFrame == \E raw \in Raws : Tick(raw, "N", "none")

NextBattery ==
    \/ StartGame
    \/ OnLock
    \/ OnUnlock
    \/ ToggleFlashlight
    \/ DrainFrame

SpecBattery == Init /\ [][NextBattery]_vars

--------------------------------------------------------------------------
(* SpecMove: walking from the spawn point to and through the inner door,  *)
(* in frames of 100 ms, looking down the hallway                          *)

InArena(pos) ==
    /\ pos[1] - Spawn[1] <= ArenaReach /\ Spawn[1] - pos[1] <= ArenaReach
    /\ pos[3] - Spawn[3] <= ArenaReach /\ Spawn[3] - pos[3] <= ArenaReach

MoveKeys == {"moveForward"}
MoveHits == {"door"}

Press == \E k \in MoveKeys : KeyDown(k)
Release == \E k \in MoveKeys : KeyUp(k)
InteractMove == \E hit \in MoveHits : TryInteract(hit)
MoveFrame ==
    /\ FullBattery - battery < MaxWalkDrain
    /\ Tick(100, "N", "none")
    /\ InArena(camera')

NextMove ==
    \/ StartGame
    \/ Press
    \/ Release
    \/ InteractMove
    \/ SlideDone
    \/ Wait
    \/ MoveFrame

SpecMove == Init /\ [][NextMove]_vars

--------------------------------------------------------------------------
(* SpecNote: reading while walking.  The lobby's note and the final      *)
(* terminal, the keys, frames of 100 ms, and the start of the cinematic   *)
(* when the final terminal's note is closed                               *)

NoteHits == {"none", "note", "final_terminal"}

InteractNote == \E hit \in NoteHits : TryInteract(hit)
NoteFrame ==
    /\ FullBattery - battery < MaxWalkDrain
    /\ Tick(100, "N", "none")
    /\ InArena(camera')

NextNote ==
    \/ StartGame
    \/ OnLock
    \/ OnUnlock
    \/ Press
    \/ Release
    \/ InteractNote
    \/ CloseNote
    \/ NoteFrame

SpecNote == Init /\ [][NextNote]_vars

--------------------------------------------------------------------------
(* SpecType: reading notes.  A note and a terminal of the lobby, the      *)
(* viewer's close button and the typewriter's timer                       *)

TypeHits == {"none", "note", "terminal"}

InteractType == \E hit \in TypeHits : TryInteract(hit)

NextType ==
    \/ StartGame
    \/ OnLock
    \/ OnUnlock
    \/ InteractType
    \/ CloseNote
    \/ TypeStep

SpecType == Init /\ [][NextType]_vars

--------------------------------------------------------------------------
(* SpecCount: every kind of interactable, with the callbacks they start   *)

InteractCount == \E hit \in Hits : TryInteract(hit)

NextCount ==
    \/ StartGame
    \/ InteractCount
    \/ CloseNote
    \/ SecOpen
    \/ ValveExit
    \/ EscOpen
    \/ EscTeleport
    \/ Cin2
    \/ Cin3
    \/ Cin4
    \/ Cin5
    \/ Cin6
    \/ Cin7
    \/ SlideDone
    \/ Wait

SpecCount == Init /\ [][NextCount]_vars

--------------------------------------------------------------------------
(* SpecSlide: one frame of movement from a standing start.  The start is  *)
(* drawn from places in the lobby beside the door wall, the door frame    *)
(* and the reception desk; the keys held and the view direction vary.     *)

SlideStarts ==
    {Spawn, <<-190, playerHeight, 446>>, <<-190, playerHeight, 460>>,
     <<100, playerHeight, 446>>, <<260, playerHeight, 900>>,
     <<240, playerHeight, 805>>, <<0, playerHeight, 800>>}

InitSlide == InitWorld /\ camera \in SlideStarts /\ entityState = InitEntity

PressAny == \E k \in KeyNames : KeyDown(k)
ReleaseAny == \E k \in KeyNames : KeyUp(k)
\* the first frame: nothing has moved the player yet
SlideFrame == interactFrame = 0 /\ \E yaw \in Yaws : Tick(100, yaw, "none")

NextSlide ==
    \/ StartGame
    \/ PressAny
    \/ ReleaseAny
    \/ InteractMove
    \/ SlideDone
    \/ Wait
    \/ SlideFrame

SpecSlide == InitSlide /\ [][NextSlide]_vars

--------------------------------------------------------------------------
(* SpecEntity: the entity controller on its own, updated every 50 ms or   *)
(* 100 ms with the player standing at one of a few places                 *)

EntitySpots == {Spawn, <<0, playerHeight, -500>>, <<300, playerHeight, -800>>}
Countdowns == {100, 1000}
FirstHides == {15000}
FirstAppears == {3000, 7000}

InitEntityDrawn ==
    /\ InitWorld
    /\ camera \in EntitySpots
    /\ \E t \in Countdowns, h \in FirstHides, a \in FirstAppears :
          entityState = [InitEntity EXCEPT !.activateTime = t, !.hideFor = h,
                                           !.appearsFor = a]

EntityDeltas == {50, 100}

\* entitySystem.update(delta, elapsed, camera.position)
EntityUpdate ==
    /\ entityState.activateTime > -MaxEntityMs
    /\ \E delta \in EntityDeltas, rAppear \in {3000, 8000} :
          entityState' = EntityAfter(entityState, delta, camera, 10000, rAppear, 20000)
    /\ UNCHANGED <<sessionVars, playerVars, flagVars, worldVars, uiVars, cinVars,
                   horror, noteVars>>

NextEntity == EntityUpdate

SpecEntity == InitEntityDrawn /\ [][NextEntity]_vars

--------------------------------------------------------------------------
(* SpecCycle: the entity's visibility cycle, followed through several     *)
(* windows.  One update every 100 ms; the draws of Math.random() are      *)
(* taken from the ends of their ranges.                                   *)

HideDraws   == {10000, 29900}     \* 10 + Math.random() * 20, in ms
AppearDraws == {3000, 7900}       \* 3 + Math.random() * 5
CaughtDraws == {20000, 34900}     \* 20 + Math.random() * 15

\* the time followed has not run out
CycleRuns == entityState.activateTime > -MaxCycleMs

CycleUpdate ==
    /\ CycleRuns
    /\ \E rHide \in HideDraws, rAppear \in AppearDraws, rCaught \in CaughtDraws :
          entityState' = EntityAfter(entityState, 100, camera, rHide, rAppear, rCaught)
    /\ UNCHANGED <<sessionVars, playerVars, flagVars, worldVars, uiVars, cinVars,
                   horror, noteVars>>

NextCycle == CycleUpdate

SpecCycle == InitEntityDrawn /\ [][NextCycle]_vars

\* the game loop calls update on every animation frame: weak fairness of
\* CycleUpdate, WF_vars(CycleUpdate), written with the action's guard
\* CycleRuns, which is when it is enabled
FairCycle ==
    SpecCycle /\ ([]<>(~CycleRuns) \/ []<><<CycleUpdate>>_vars)

--------------------------------------------------------------------------
(* C1: the locked security door (FairSpec) *)

SecLeftActive  == ~IsEmpty(WB(wallBoxes, secDoorColliderL))
SecRightActive == ~IsEmpty(WB(wallBoxes, secDoorColliderR))
SecRetracted   == IsEmpty(WB(wallBoxes, secDoorColliderL)) /\
                  IsEmpty(WB(wallBoxes, secDoorColliderR))

\* everything an interact may change, but the cue and the hint
interactState ==
    <<sessionVars, playerVars, flagVars, worldVars, interactFrame, prompt,
      cinVars, npcVars, noteVars>>

\* an interact on the security door without the card: the door stays
\* locked, both colliders stay, the rejection tone plays
C1_Denied ==
    (TryInteract("locked_door") /\ Dispatches("locked_door") /\ ~hasKeycard)
        => /\ ~ud'["locked_door"].opened
           /\ SecLeftActive' /\ SecRightActive'
           /\ cue' = "denied"

\* collecting the card sets hasKeycard; the next interact on the door then
\* opens it and schedules the slide after the unlock delay
C1_Granted ==
    /\ (TryInteract("keycard") /\ Dispatches("keycard")) => hasKeycard'
    /\ (TryInteract("locked_door") /\ Dispatches("locked_door") /\ hasKeycard
          /\ ~ud["locked_door"].opened)
        => /\ ud'["locked_door"].opened
           /\ \E k \in 1..Len(timers') :
                  timers'[k] = [id |-> "secOpen", rem |-> SecDoorDelay]

\* the slide takes its duration and its last frame retracts both colliders
C1_Slide ==
    /\ SecOpen => anim'["sec"] = SecDoorDuration /\ SecLeftActive' /\ SecRightActive'
    /\ AnimDone("sec") => SecRetracted'

\* an interact on the opened door changes nothing
C1_NoOp ==
    (TryInteract("locked_door") /\ ud["locked_door"].opened)
        => UNCHANGED interactState /\ cue' = "none"

\* C1: the locked security door.  Without the access card an interact
\* leaves the door locked (opened false, both colliders active) and plays
\* the rejection tone; with the card collected the next interact sets
\* opened, and after the unlock delay and the slide both colliders
\* (doorColliderLeft, doorColliderRight of the door's userData) are
\* retracted; every later interact on the door is a no-op.
C1_SecurityDoor ==
    /\ [][C1_Denied /\ C1_Granted /\ C1_Slide /\ C1_NoOp]_vars
    /\ [](SecRetracted => ud["locked_door"].opened /\ hasKeycard)
    /\ (ud["locked_door"].opened ~> SecRetracted)

\* the door has been refused once, then opened, and has finished sliding
C1_Witness ==
    /\ ud["locked_door"].opened
    /\ SecRetracted
    /\ anim["sec"] = -1
    /\ collectiblesFound >= 3


--------------------------------------------------------------------------
(* C2: the valve counter (SpecUnder) *)

TurnedCount == Cardinality({v \in Valves : ud[v].turned})

C2_Step ==
    /\ valvesTurned' >= valvesTurned
    /\ \A v \in Valves :
          /\ (TryInteract(v) /\ ud[v].turned) => valvesTurned' = valvesTurned
          /\ (TryInteract(v) /\ Dispatches(v) /\ ~ud[v].turned)
                => valvesTurned' = valvesTurned + 1 /\ ud'[v].turned

\* C2: state.valvesTurned always equals the number of valves whose turned
\* flag is set, so it is at most 3; it never decreases; an interact on an
\* unturned valve adds one and an interact on a turned valve leaves it.
C2_ValveCounter ==
    /\ [](valvesTurned = TurnedCount /\ valvesTurned <= 3)
    /\ [][C2_Step]_vars

\* all three valves turned, and one more interact made after the third
C2_Witness ==
    /\ valvesTurned = 3
    /\ \A v \in Valves : ud[v].turned
    /\ collectiblesFound = 4

--------------------------------------------------------------------------
(* C3: one-way flags (SpecFlags) *)

Doors == {"door", "locked_door", "escape_door"}
Cards == {"keycard", "keycard_10"}

C3_Step ==
    /\ \A o \in Doors : ud[o].opened => ud'[o].opened
    /\ \A v \in Valves : ud[v].turned => ud'[v].turned
    /\ hasKeycard => hasKeycard'
    /\ hasKeycard10 => hasKeycard10'
    /\ \A c \in Cards : ~ud[c].interactable => ~ud'[c].interactable
    /\ ud["hatch"].interactable => ud'["hatch"].interactable

\* C3: a door's, the security door's or the escape door's opened flag, a
\* valve's turned flag, a card's collected state (hasKeycard / hasKeycard10
\* true and the pickup no longer interactable) and the hatch's unlocked
\* state (interactable true) are never taken back by any interact, frame
\* or callback.
C3_OneWay ==
    /\ [][C3_Step]_vars
    /\ [](hasKeycard <=> ~ud["keycard"].interactable)
    /\ [](hasKeycard10 <=> ~ud["keycard_10"].interactable)

\* the card collected, both ground-floor doors opened, the hatch unlocked
\* by the cinematic, and a frame run after all that
C3_Witness ==
    /\ hasKeycard /\ ~ud["keycard"].interactable
    /\ ud["locked_door"].opened /\ ud["door"].opened
    /\ ud["hatch"].interactable
    /\ cinLog = <<1, 2, 3, 4, 5, 6, 7>>
    /\ interactFrame = 1

--------------------------------------------------------------------------
(* C4: retracted colliders (SpecMove) *)

\* places a player may stand: across the inner doorway and either side
Probes ==
    {<<x, playerHeight, z>> : x \in {-110, 0, 110},
                              z \in {350, 380, 400, 420, 445, 446}}

DoorSlid == ud["door"].opened /\ anim["door"] = -1

C4_Gone(i) ==
    /\ IsEmpty(WB(wallBoxes, i))
    /\ \A p \in Probes \cup {camera} : i \notin Blockers(wallBoxes, p)

C4_Step ==
    \A i \in 0..(Len(wallBoxes) - 1) :
        IsEmpty(WB(wallBoxes, i)) => IsEmpty(WB(wallBoxes', i))

\* C4: once the door's slide has collapsed wallBoxes[i] with makeEmpty,
\* checkCollision reports no overlap with box i wherever the player
\* stands, and no step gives box i a volume again.
C4_RetractedStaysGone ==
    /\ [](DoorSlid => C4_Gone(doorColliderLeft) /\ C4_Gone(doorColliderRight))
    /\ [](\A i \in 0..(Len(wallBoxes) - 1) :
              IsEmpty(WB(wallBoxes, i)) => C4_Gone(i))
    /\ [][C4_Step]_vars

\* the player stands in the doorway, where both leaves were
C4_Witness ==
    /\ DoorSlid
    /\ IntersectsBox(BoxCS(camera, playerSize), WB(InitWallBoxes, doorColliderLeft))
    /\ IntersectsBox(BoxCS(camera, playerSize), WB(InitWallBoxes, doorColliderRight))

--------------------------------------------------------------------------
(* C5: zone triggers (SpecMove) *)

\* C5 as claimed for the eight HorrorEvents zones: on a frame that leaves
\* the player inside a zone's radius the zone's handler has fired, that
\* frame or before.
C5_ZoneFires ==
    [][MoveFrame =>
          \A k \in 1..Len(HorrorZones) :
              InZone(camera', HorrorZones[k])
                  => HorrorZones[k].id \in horror'.triggered]_vars


--------------------------------------------------------------------------
(* C6: entity activation (SpecEntity) *)

C6_Step ==
    /\ entityState.active => entityState'.active
    /\ entityState'.whispers # entityState.whispers
          => /\ ~entityState.active /\ entityState'.active
             /\ entityState'.whispers = entityState.whispers + 1

\* C6: the entity is dormant while its countdown is positive and active
\* from the update that brings it to zero or below, so with a countdown of
\* 0.1 s it is active after 1 s of updates (countdown at -0.9 s or less);
\* the activation, with its whisper cue, happens exactly once and no later
\* update makes active false again.
C6_ActivatesOnce ==
    /\ [](entityState.activateTime > 0 => ~entityState.active)
    /\ [](entityState.activateTime <= 0 => entityState.active)
    /\ [](entityState.activateTime <= 100 - 1000
             => entityState.active /\ entityState.whispers = 1)
    /\ [](entityState.whispers = IF entityState.active THEN 1 ELSE 0)
    /\ [][C6_Step]_vars

\* a second of updates and more after the countdown of 0.1 s ran out, the
\* entity has shown itself once
C6_Witness ==
    /\ entityState.active
    /\ entityState.whispers = 1
    /\ entityState.activateTime <= 100 - 1000
    /\ entityState.scares >= 1

--------------------------------------------------------------------------
(* C7: the hatch during the cinematic (SpecCin) *)

CinRunning == \E k \in 1..Len(timers) : timers[k].id = "cin7"

\* tenths of a second since triggerChapter2Cinematic ran
CinElapsed ==
    IF CinRunning
    THEN CinStep7 - timers[CHOOSE k \in 1..Len(timers) : timers[k].id = "cin7"].rem
    ELSE -1

--------------------------------------------------------------------------
(* C8: sliding (SpecSlide) *)

Shift(pos, dx, dz) == <<pos[1] + dx, pos[2], pos[3] + dz>>

\* what the claim asks of a frame that moves by mv from a free position
C8_Slides(mv) ==
    LET xOnly == Shift(camera, mv[1], 0)
        zOnly == Shift(camera, 0, mv[2])
        blockedX == Collides(wallBoxes, xOnly)
        blockedZ == Collides(wallBoxes, Shift(IF blockedX THEN camera ELSE xOnly,
                                              0, mv[2]))
        result == <<camera'[1], camera[2], camera'[3]>>
    IN ~Collides(wallBoxes, camera)
       => /\ (blockedX /\ ~Collides(wallBoxes, zOnly)) => result = zOnly
          /\ (blockedZ /\ ~blockedX) => result = xOnly
          /\ (~blockedX /\ ~blockedZ) => result = Shift(camera, mv[1], mv[2])
          /\ ~Collides(wallBoxes, result)

--------------------------------------------------------------------------
(* C9: objects that are not interactable (SpecFlags) *)

C9_Step ==
    \A h \in Objects :
        ~ud[h].interactable
        => /\ TryInteract(h) => UNCHANGED interactState
           /\ (Tick(0, "N", h) /\ interactFrame' = 0) => prompt' = "none"

\* C9: when the nearest hit is an object whose interactable flag is false,
\* the prompt raycast shows no prompt for it and tryInteract changes no
\* flag, counter, collider, player position or scheduled callback.
C9_NotInteractable == [][C9_Step]_vars

\* the card is collected (no longer interactable), the hatch still sealed,
\* and a later handler has run with the prompt raycast leaving no prompt
C9_Witness ==
    /\ hasKeycard /\ ~ud["keycard"].interactable /\ ~ud["hatch"].interactable
    /\ playing /\ ~paused
    /\ collectiblesFound = 1
    /\ interactFrame = 0 /\ prompt = "none"
    /\ cue = "none" /\ hint = "none"

--------------------------------------------------------------------------
(* C10: the battery (SpecBattery) *)

C10_Step ==
    /\ battery' <= battery
    /\ battery' < battery => flashlightOn /\ DrainFrame
    /\ \A raw \in Raws :
          (Tick(raw, "N", "none") /\ flashlightOn /\ battery > 0
              /\ battery - Drain(Min(raw, 100)) <= 0)
          => battery' = 0 /\ ~flashlightOn'

\* C10: the battery stays within [0, 100] percent, never increases, and
\* decreases only in a frame that starts with the flashlight on; the frame
\* that would take it to 0 or below leaves it at exactly 0 with the
\* flashlight off, and toggleFlashlight cannot switch it on again.
C10_Battery ==
    /\ [](battery >= 0 /\ battery <= FullBattery)
    /\ [](battery = 0 => ~flashlightOn)
    /\ [][C10_Step]_vars

\* drained: the battery at exactly 0 and the flashlight off
C10_Witness == battery = 0 /\ ~flashlightOn /\ playing

--------------------------------------------------------------------------
(* C11: interacting again with a resolved object (Spec) *)

\* the object's state machine has left its initial state
Resolved(h) ==
    CASE TypeOf(h) \in Doors -> ud[h].opened
      [] TypeOf(h) = "valve" -> ud[h].turned
      [] TypeOf(h) \in Cards -> ~ud[h].interactable
      [] OTHER -> FALSE

\* C11 as claimed: an interact on an open door, an open security door, an
\* open escape door, a turned valve or a collected keycard changes no
\* flag, counter, collider or position and starts no slide or timer.
C11_NoOp ==
    [][\A h \in Objects :
          (Resolved(h) /\ TryInteract(h)) => UNCHANGED interactState]_vars

--------------------------------------------------------------------------
(* C12: the escape door without the level 10 card (SpecUnder) *)

\* the escape door's own box in wallBoxes, after the headquarters' and the
\* tunnels' colliders
EscDoorBox == Len(HQColliders) + Len(TunnelColliders) + escDoorColliderIdx

EscPending ==
    \E k \in 1..Len(timers) : timers[k].id \in {"escOpen", "escTeleport"}

C12_Step ==
    (TryInteract("escape_door") /\ Dispatches("escape_door") /\ ~hasKeycard10)
        => /\ cue' = "denied" /\ hint' = "locked10"
           /\ ~ud'["escape_door"].opened
           /\ ud'["escape_door"].doorInScene
           /\ wallBoxes' = wallBoxes
           /\ ~IsEmpty(WB(wallBoxes', EscDoorBox))
           /\ ~IsEmpty(WB(wallBoxes', escDoorColliderIdx))
           /\ camera' = camera
           /\ timers' = timers /\ anim' = anim

\* C12: an interact on the escape door without the level 10 card is
\* carried out as a rejection: the handler runs to its end, plays the
\* denied tone and shows the hint, and leaves opened false, the colliders
\* as they were, the door mesh in the scene and the player where they
\* stood, with no callback scheduled; as long as the card is missing the
\* door stays closed and no teleport is pending.
C12_EscapeDenied ==
    /\ [][C12_Step]_vars
    /\ [](~hasKeycard10
            => /\ ~ud["escape_door"].opened /\ ud["escape_door"].doorInScene
               /\ ~EscPending
               /\ ~IsEmpty(WB(wallBoxes, EscDoorBox))
               /\ camera # RooftopEntry)
    /\ []((playing /\ collectiblesFound < MaxFound)
            => ENABLED TryInteract("escape_door"))

\* the door has just refused the player, who holds no level 10 card
C12_Witness ==
    /\ cue = "denied" /\ hint = "locked10"
    /\ ~hasKeycard10 /\ ~ud["escape_door"].opened
    /\ collectiblesFound >= 1

--------------------------------------------------------------------------
(* C13: the order of the cinematic's steps (SpecCoarse) *)

\* how often step n is among the first k entries of the log
Fired(n, k) == Cardinality({i \in 1..k : cinLog[i] = n})

\* callbacks of step n still waiting
Waiting(n) ==
    Cardinality({k \in 1..Len(timers) :
                    timers[k].id = <<"cin2", "cin3", "cin4", "cin5", "cin6",
                                     "cin7">>[n - 1]})

\* C13: in every run of the cinematic each of the 7 steps fires exactly
\* once and in the order of its offset, however late the callbacks run
\* and however many offsets one lapse of time crosses: at every point of
\* the log no step has fired more often than the step before it or than
\* runs were started, step 1 has fired once per run, and every step that
\* has not fired yet for a run is still waiting, none lost or doubled.
C13_StepsInOrder ==
    /\ Fired(1, Len(cinLog)) = cinRuns
    /\ \A k \in 0..Len(cinLog) : \A n \in 1..6 : Fired(n + 1, k) <= Fired(n, k)
    /\ \A n \in 2..7 : Fired(n, Len(cinLog)) + Waiting(n) = cinRuns

\* step 3 has fired and the steps at 5.5 s and 7.5 s are both overdue
C13_Witness ==
    /\ cinRuns = 1
    /\ cinLog = <<1, 2, 3>>
    /\ Len(timers) = 4
    /\ timers[1] = [id |-> "cin4", rem |-> 0]
    /\ timers[2] = [id |-> "cin5", rem |-> 0]

--------------------------------------------------------------------------
(* C14: steps still pending when the session is quit (Spec) *)

\* C14 as claimed: once quitToMenu has ended the session, the steps that
\* had not fired change no flag, no interactable flag, no collider, not
\* the paused flag and not the player position.
C14_QuitDiscards ==
    [][(~playing /\ ~playing')
          => UNCHANGED <<flagVars, wallBoxes, paused, camera>>]_vars

--------------------------------------------------------------------------
(* C15: what a pause freezes (Spec) *)

Frozen == paused \/ noteOpen

\* C15 as claimed: while the simulation stays paused or a note stays
\* open, the player position, the battery, the progress of the slides,
\* the colliders and the pending callbacks stay where they were.
C15_PauseFreezes ==
    [][(Frozen /\ Frozen')
          => UNCHANGED <<camera, battery, anim, wallBoxes, timers>>]_vars

--------------------------------------------------------------------------
(* C16: how many cinematic runs a session starts (SpecCin) *)

\* C16 as claimed: triggerChapter2Cinematic is invoked at most once.
C16_OneCinematic == cinRuns <= 1

--------------------------------------------------------------------------
(* C17: the exit door's run (SpecUnder) *)

\* the exit door's own box in wallBoxes, after the headquarters' colliders
ExitDoorBox == Len(HQColliders) + exitDoorColliderIdx

\* exit-door runs scheduled and not yet started
ExitScheduled ==
    Cardinality({k \in 1..Len(timers) : timers[k].id = "valveExit"})

C17_Step ==
    /\ ExitScheduled' > ExitScheduled
          => /\ valvesTurned = 2 /\ valvesTurned' = 3
             /\ \E v \in Valves : TryInteract(v) /\ ~ud[v].turned
             /\ \E k \in 1..Len(timers') :
                    timers'[k] = [id |-> "valveExit", rem |-> ValveExitDelay]
    /\ \A v \in Valves :
          (TryInteract(v) /\ Dispatches(v) /\ ~ud[v].turned /\ valvesTurned = 2)
              => ExitScheduled' = 1
    /\ (valvesTurned = 3 /\ \E h \in Objects : TryInteract(h))
          => ExitScheduled' = ExitScheduled
    /\ anim["exit"] = -1 /\ anim'["exit"] # -1 => ValveExit

\* C17: no exit-door run is scheduled, running or finished while fewer
\* than three valves are turned; the interact that turns the third valve
\* schedules exactly one, after the delay; no later interact schedules
\* another; and the exit door's collider is not retracted before all
\* three valves are turned.
C17_ExitRun ==
    /\ [][C17_Step]_vars
    /\ [](ExitScheduled <= 1)
    /\ [](valvesTurned < 3
            => /\ ExitScheduled = 0 /\ anim["exit"] = -1
               /\ ~IsEmpty(WB(wallBoxes, ExitDoorBox)))

\* the run has been scheduled by the third valve, has slid the door, and
\* an interact has been made since
C17_Witness ==
    /\ valvesTurned = 3
    /\ ExitScheduled = 0 /\ anim["exit"] = -1
    /\ IsEmpty(WB(wallBoxes, exitDoorColliderIdx))
    /\ collectiblesFound = 4

--------------------------------------------------------------------------
(* C18: the hatch (SpecCin) *)

C18_Step ==
    /\ (~ud["hatch"].interactable /\ ud'["hatch"].interactable) => Cin6
    /\ (TryInteract("hatch")
          /\ (~ud["hatch"].interactable \/ HatchSealed("hatch")))
          => camera' = camera
    /\ (TryInteract("hatch") /\ Dispatches("hatch"))
          => camera' = <<-1300, -400 + playerHeight, -2600>>

\* C18: the hatch's interactable flag is set by step 6 of a cinematic run
\* and by nothing else, so it is true only once that step has fired; an
\* interact on the sealed hatch leaves the player where they stand, and an
\* interact on the unlocked hatch puts the player at
\* (-13, -4 + playerHeight, -26).
C18_HatchUnlock ==
    /\ [][C18_Step]_vars
    /\ [](ud["hatch"].interactable
            => /\ \E i \in 1..Len(cinLog) : cinLog[i] = 6
               /\ finalTerminalRead)

\* the player has gone down the unlocked hatch
C18_Witness ==
    /\ ud["hatch"].interactable
    /\ camera = <<-1300, -400 + playerHeight, -2600>>
    /\ cue = "doorSlam" /\ hint = "descend"

--------------------------------------------------------------------------
(* C19: an open note (SpecNote) *)

C19_Step ==
    /\ noteOpen => ~Tick(100, "N", "none")
    /\ (noteOpen /\ noteOpen') => camera' = camera /\ battery' = battery
    /\ noteOpen
          => \/ UNCHANGED interactState
             \/ \A h \in Objects : ~TryInteract(h)
    /\ (Dispatches("final_terminal") /\ TryInteract("final_terminal"))
          => pendingCinematic' /\ noteOpen' /\ finalTerminalRead'
    /\ (~pendingCinematic /\ pendingCinematic')
          => TryInteract("final_terminal") /\ noteOpen'
    /\ (pendingCinematic /\ CloseNote)
          => ~pendingCinematic' /\ cinRuns' = cinRuns + 1 /\ paused'
    /\ (pendingCinematic /\ ~pendingCinematic') => CloseNote
    /\ cinRuns' # cinRuns => CloseNote /\ pendingCinematic
    /\ pendingCinematic => noteOpen /\ finalTerminalRead
    /\ pendingCinematic' => noteOpen' /\ finalTerminalRead'

\* C19: while a note or terminal modal is open no frame runs its body, so
\* the player does not move and the battery does not drain, and tryInteract
\* dispatches nothing; reading a final terminal sets pendingCinematic, and
\* the flag is reset, with the cinematic started, by the closeNote that
\* closes that modal and by nothing else, so it is set only while the
\* modal is open.
C19_NoteOpen == [][C19_Step]_vars

\* the final terminal is being read with the forward key held, after a
\* walk that has drained the battery
C19_Witness ==
    /\ noteOpen /\ pendingCinematic
    /\ keys["moveForward"]
    /\ battery < FullBattery
    /\ camera # Spawn

--------------------------------------------------------------------------
(* C20: the collectibles counter (SpecCount) *)

\* the interact reaches its branch and the branch takes effect
Succeeds(h) ==
    /\ Dispatches(h)
    /\ CASE TypeOf(h) = "door" -> ~ud[h].opened
          [] TypeOf(h) = "valve" -> ~ud[h].turned
          [] TypeOf(h) = "hatch" -> ~HatchSealed(h)
          [] TypeOf(h) = "locked_door" -> ~ud[h].opened /\ hasKeycard
          [] TypeOf(h) = "escape_door" -> ~ud[h].opened /\ hasKeycard10
          [] OTHER -> TRUE

\* (each implication is written as a disjunction, its consequent first)
C20_Step ==
    /\ \A h \in Objects :
          /\ \/ collectiblesFound' = collectiblesFound + 1
             \/ ~(Succeeds(h) /\ TryInteract(h))
          /\ \/ collectiblesFound' = collectiblesFound
             \/ ~(~ud[h].interactable /\ TryInteract(h))
    /\ \/ collectiblesFound' = collectiblesFound
       \/ ~TryInteract("none")
    /\ collectiblesFound' # collectiblesFound
          => /\ collectiblesFound' = collectiblesFound + 1
             /\ \E h \in Objects : Dispatches(h) /\ TryInteract(h)

\* C20: every interact that succeeds, on a note, a terminal, a door, a
\* valve, a keycard or the hatch alike, adds exactly one to
\* collectiblesFound; an interact that hits nothing or hits an object
\* whose interactable flag is false leaves it; nothing else changes it.
C20_Counter == [][C20_Step]_vars

\* four interactions of four kinds have been counted
C20_Witness ==
    /\ collectiblesFound = 4
    /\ hasKeycard /\ ud["door"].opened /\ ud["valve0"].turned
    /\ finalTerminalRead

--------------------------------------------------------------------------
(* C21: the player during the cinematic (SpecCoarse) *)

\* C21 as claimed: while the one cinematic run is under way, from
\* triggerChapter2Cinematic to its step 7, state.paused is true, whatever
\* pointer-lock events arrive in between.
C21_FrozenThroughout == (cinRuns = 1 /\ CinRunning) => paused

--------------------------------------------------------------------------
(* C22: the collider a retraction empties (SpecUnder) *)

\* the boxes built for the four doors' own geometry, as wallBoxes holds them
DoorBoxes ==
    {doorColliderLeft, doorColliderRight, secDoorColliderL, secDoorColliderR,
     ExitDoorBox, EscDoorBox}

\* C22 as claimed: a retraction empties the box built for the door it
\* belongs to.  No box but a door's own is ever empty, and once the exit
\* door has slid open, or the escape door's panel has been removed, that
\* door's own box is empty.
C22_OwnCollider ==
    /\ \A i \in 0..(Len(wallBoxes) - 1) :
          IsEmpty(WB(wallBoxes, i)) => i \in DoorBoxes
    /\ (valvesTurned = 3 /\ ExitScheduled = 0 /\ anim["exit"] = -1)
          => IsEmpty(WB(wallBoxes, ExitDoorBox))
    /\ ~ud["escape_door"].doorInScene => IsEmpty(WB(wallBoxes, EscDoorBox))

--------------------------------------------------------------------------
(* C23: the resolution never ends inside a wall (SpecSlide) *)

\* what the claim asks of the resolution of a move by mv
C23_Resolves(mv) ==
    LET r      == Resolve(wallBoxes, camera, mv)
        tryX   == Shift(camera, mv[1], 0)
        afterX == <<r.pos[1], camera[2], camera[3]>>
        tryZ   == Shift(afterX, 0, mv[2])
    IN ~Collides(wallBoxes, camera)
       => /\ ~Collides(wallBoxes, afterX)
          /\ ~Collides(wallBoxes, r.pos)
          /\ r.pos[1] = (IF Collides(wallBoxes, tryX) THEN camera[1] ELSE tryX[1])
          /\ r.pos[3] = (IF Collides(wallBoxes, tryZ) THEN camera[3] ELSE tryZ[3])
          /\ r.pos[2] = camera[2]
          /\ camera'[1] = r.pos[1] /\ camera'[3] = r.pos[3]

\* C23: a frame's resolution that starts without overlap overlaps no
\* active collider after its X step and after its Z step, whatever the move
\* vector and whichever colliders are active; an axis whose tentative
\* position overlaps keeps exactly its old coordinate, the other takes the
\* tentative one.
C23_NeverInsideWall ==
    [][\A yaw \in Yaws :
          (interactFrame = 0 /\ Tick(100, yaw, "none")
              /\ Direction(keys) # <<0, 0>>)
          => C23_Resolves(MoveVec(keys, yaw, 100))]_vars

\* before the door wall, a diagonal step towards it: the X step was taken,
\* the Z step met the wall and was reverted
C23_Witness ==
    /\ interactFrame = 1
    /\ camera[1] = 113 /\ camera[3] = 446
    /\ bobTime > 0

--------------------------------------------------------------------------
(* C24: a door blocks until its slide has finished (Spec) *)

Leaves == {"door", "sec"}
LeafBoxes(a) ==
    IF a = "door" THEN {doorColliderLeft, doorColliderRight}
    ELSE {secDoorColliderL, secDoorColliderR}
LeavesActive(a) == \A i \in LeafBoxes(a) : ~IsEmpty(WB(wallBoxes, i))
LeavesGone(a) == \A i \in LeafBoxes(a) : IsEmpty(WB(wallBoxes, i))

\* the security door's unlock delay is still running
SecPending == \E k \in 1..Len(timers) : timers[k].id = "secOpen"

\* tenths of a second until the door's last frame, -1 when no run is on
TimeToOpen(a) ==
    IF a = "sec" /\ SecPending
    THEN timers[CHOOSE k \in 1..Len(timers) : timers[k].id = "secOpen"].rem
             + SecDoorDuration
    ELSE anim[a]

C24_Step ==
    /\ (TryInteract("door") /\ Dispatches("door") /\ ~ud["door"].opened)
          => ud'["door"].opened /\ TimeToOpen("door")' = DoorDuration
    /\ (TryInteract("locked_door") /\ Dispatches("locked_door") /\ hasKeycard
          /\ ~ud["locked_door"].opened)
          => /\ ud'["locked_door"].opened
             /\ TimeToOpen("sec")' = SecDoorDelay + SecDoorDuration
    /\ \A a \in Leaves :
          \* the run's clock moves only with the time that passes
          /\ (TimeToOpen(a) > 0 /\ TimeToOpen(a)' # TimeToOpen(a))
                => \E q \in 1..TimeToOpen(a) :
                      Advance(q) /\ TimeToOpen(a)' = TimeToOpen(a) - q
          \* a box is retracted by the run's last frame only, with its twin
          /\ (\E i \in LeafBoxes(a) :
                 ~IsEmpty(WB(wallBoxes, i)) /\ IsEmpty(WB(wallBoxes', i)))
                => /\ AnimDone(a) /\ TimeToOpen(a) = 0
                   /\ LeavesActive(a) /\ LeavesGone(a)'

\* C24: from the interact that sets opened, the interior door's two boxes
\* stay active for the 2 s of its slide and the security door's two for
\* the 1.5 s delay and the 3 s of its slide; the last frame of the slide
\* retracts both boxes together, never earlier and never one alone.
C24_BlocksUntilSlid ==
    /\ [][C24_Step]_vars
    /\ [](\A a \in Leaves : LeavesActive(a) \/ LeavesGone(a))
    /\ [](\A a \in Leaves : TimeToOpen(a) >= 0 => LeavesActive(a))
    /\ [](~ud["door"].opened => LeavesActive("door") /\ TimeToOpen("door") = -1)
    /\ [](~ud["locked_door"].opened
            => LeavesActive("sec") /\ TimeToOpen("sec") = -1)

\* the interior door has finished its slide and is open, the security
\* door is half a second into its slide and still blocks
C24_Witness ==
    /\ LeavesGone("door") /\ ud["door"].opened
    /\ ud["locked_door"].opened /\ TimeToOpen("sec") = SecDoorDuration - 5
    /\ LeavesActive("sec")

--------------------------------------------------------------------------
(* C25: the escape door's run (SpecUnder) *)

EscTimer(id, rem) ==
    Cardinality({k \in 1..Len(timers) : timers[k] = [id |-> id, rem |-> rem]})

C25_Step ==
    /\ (TryInteract("escape_door") /\ Dispatches("escape_door") /\ hasKeycard10
          /\ ~ud["escape_door"].opened)
          => /\ ud'["escape_door"].opened
             /\ cue' = "terminal" /\ hint' = "granted10"
             /\ EscTimer("escOpen", EscDoorDelay)' = 1
             /\ wallBoxes' = wallBoxes /\ camera' = camera
    /\ EscOpen
          => /\ cue' = "doorSlam"
             /\ IsEmpty(WB(wallBoxes', EscDoorBox))
             /\ ~ud'["escape_door"].doorInScene
             /\ EscTimer("escTeleport", EscTeleportDelay)' = 1
             /\ camera' = camera
    /\ EscTeleport
          => /\ camera' = RooftopEntry
             /\ IsEmpty(WB(wallBoxes, EscDoorBox))
             /\ ~ud["escape_door"].doorInScene
    /\ camera' = RooftopEntry /\ camera # RooftopEntry => EscTeleport

\* C25 as claimed: a granted interact on the escape door sets opened and
\* plays the granted cue; the callback after the delay plays the slam,
\* retracts the door's collider and removes the door's mesh; only the
\* callback after the further delay moves the player to the rooftop, and
\* never while the door's collider is still active.
C25_EscapeRun == [][C25_Step]_vars

--------------------------------------------------------------------------
(* C26: zone triggers and the entity on every tick (SpecBattery) *)

\* the step is a frame of the game loop that got past its gate
FrameRan == TickGate /\ interactFrame' # interactFrame

\* C26 as claimed: every frame of a playing, unpaused session tests every
\* zone against the position the frame leaves the player at, so a zone
\* not yet triggered whose radius holds the player fires in that frame, in
\* list order, and the frame then updates the entity controller.
C26_ZonesEveryTick ==
    [][FrameRan =>
          /\ horror' = HorrorUpdate(horror, camera')
          /\ \A k \in 1..Len(HorrorZones) :
                InZone(camera', HorrorZones[k])
                    => HorrorZones[k].id \in horror'.triggered
          /\ entityState'.activateTime < entityState.activateTime]_vars

--------------------------------------------------------------------------
(* C27: the entity's visibility cycle (FairCycle) *)

\* the step is an update by d ms that finds the entity active or wakes it
Updated(d) ==
    /\ entityState'.activateTime = entityState.activateTime - d
    /\ entityState'.activateTime <= 0

\* the entity shows itself within the contact radius of the player: the
\* patrol point it appears at is that close
ContactSpots == {p \in EntitySpots : Caught(DistanceTo(Closest(p), p))}
AppearsInContact == camera \in ContactSpots

\* long enough before the end of the time followed for any window to end
TimeLeft == entityState.activateTime > -(MaxCycleMs - 35100)

C27_Step ==
    Updated(100) =>
        LET e  == entityState
            f  == entityState'
            vt == e.visibleTimer + 100
        IN
        /\ (~e.isShowing /\ vt > e.hideFor)
              => /\ f.scares = e.scares + 1
                 /\ f.visibleTimer = 0
                 /\ f.appearsFor >= 3000 /\ f.appearsFor < 8000
                 /\ f.isShowing = ~AppearsInContact
                 /\ AppearsInContact
                       => f.hideFor >= 20000 /\ f.hideFor < 35000
        /\ (e.isShowing /\ vt > e.appearsFor)
              => /\ ~f.isShowing /\ f.visibleTimer = 0
                 /\ f.hideFor >= 10000 /\ f.hideFor < 30000
                 /\ f.scares = e.scares
        /\ (~e.isShowing /\ vt <= e.hideFor)
              => /\ ~f.isShowing /\ f.visibleTimer = vt
                 /\ f.hideFor = e.hideFor /\ f.scares = e.scares
        /\ (e.isShowing /\ vt <= e.appearsFor)
              => /\ f.appearsFor = e.appearsFor /\ f.scares = e.scares
                 /\ \/ f.isShowing /\ f.visibleTimer = vt
                    \/ ~f.isShowing /\ f.visibleTimer = 0

--------------------------------------------------------------------------
(* C28: patrol, chase and contact (SpecCycle) *)

C28_Step ==
    Updated(100) =>
        LET e  == entityState
            f  == entityState'
            vt == e.visibleTimer + 100
            \* the entity is showing once the visibility cycle has run
            appears    == ~e.isShowing /\ vt > e.hideFor
            showing    == appears \/ (e.isShowing /\ vt <= e.appearsFor)
            start      == IF appears THEN Closest(camera) ELSE e.position
            target     == patrolPoints[e.currentTarget + 1]
            playerDist == DistanceTo(start, camera)
            gain(to)   == DistanceTo(start, to) - DistanceTo(f.position, to)
        IN
        /\ showing
              => /\ f.chasing = (playerDist < detectionRange)
                 /\ playerDist < detectionRange
                       => /\ f.position = StepToward(start, camera, chaseSpeed, 100)
                          /\ gain(camera) \in 38..42
                 /\ playerDist >= detectionRange
                       => /\ f.position = StepToward(start, target, entitySpeed, 100)
                          /\ DistanceTo(start, target) >= 25
                                => gain(target) \in 23..27
                 /\ playerDist < contactRange
                       => /\ ~f.isShowing /\ f.visibleTimer = 0
                          /\ f.hideFor >= 20000 /\ f.hideFor < 35000
                 /\ playerDist >= contactRange
                       => f.isShowing /\ f.hideFor = e.hideFor
        /\ ~showing
              => f.position = e.position /\ f.chasing = e.chasing

\* C28: in every update that leaves the visibility cycle showing, chasing
\* is set to whether the player is nearer than detectionRange (6 m); if so
\* the entity moves straight at the player by chaseSpeed times delta, if
\* not it moves at its current waypoint by its base speed times delta; and
\* if the player is nearer than the contact radius (2 m) the same update
\* hides the entity, resets its timer and draws hideFor from [20, 35) s.
\* An update that leaves it hidden by its timer moves nothing.
C28_ChaseAndContact ==
    /\ [][C28_Step]_vars
    /\ [](entityState.isShowing
            => DistanceTo(entityState.position, camera) >= contactRange - 40)

\* the entity has chased the player from the patrol point it appeared at
\* and has just caught them
C28_Witness ==
    /\ camera = <<300, playerHeight, -800>>
    /\ entityState.chasing /\ ~entityState.isShowing
    /\ entityState.visibleTimer = 0
    /\ entityState.hideFor \in CaughtDraws
    /\ entityState.position \notin {patrolPoints[k] : k \in 1..Len(patrolPoints)}

--------------------------------------------------------------------------
(* C29: the text the note viewer shows (SpecType) *)

\* the note opened last: openNote clears the text and writes its first
\* character before it returns
CurrentNote == noteText[1][1]

IsPrefix(s, c) == Len(s) <= Len(c) /\ \A k \in 1..Len(s) : s[k] = c[k]

\* C29 as claimed: whatever openNote, closeNote and the typewriter's
\* callbacks have done, the text displayed is a prefix of the content of
\* the note opened last.
C29_PrefixOfCurrent ==
    noteText # <<>> => IsPrefix(noteText, Content(CurrentNote))

--------------------------------------------------------------------------
(* C30: the head-bob phase (SpecSlide) *)

\* C30 as claimed: a frame whose input direction is zero, with no key held
\* or with opposite keys held together, resets the phase to 0 and leaves
\* the camera at the plain eye height; a frame with a direction makes the
\* phase grow.
C30_BobRestsWhenStill ==
    [][FrameRan =>
          /\ Direction(keys) = <<0, 0>>
                => /\ bobTime' = 0
                   /\ camera'[2] = FloorOf(camera[2]) + playerHeight
                   /\ camera'[1] = camera[1] /\ camera'[3] = camera[3]
          /\ Direction(keys) # <<0, 0>> => bobTime' > bobTime]_vars

==========================================================================
